---- MODULE Spec2Model ----
(***************************************************************************)
(* Model of the image-recognition web application's core services:         *)
(*   - ModelService            (model registry, per-model health/stats)    *)
(*   - PredictionService       (result store keyed by random IDs)          *)
(*   - EnhancedPredictionService (result store keyed by UnixNano IDs)      *)
(*   - MockTensorFlowService   (mock registry used by the enhanced path)   *)
(*                                                                         *)
(* Time is a natural-number clock `now` (one unit = one reading of         *)
(* time.Now() that differs from the previous one).  Floating point         *)
(* quantities are kept exact: an error rate is the pair (Errors,           *)
(* Predictions) and comparisons against 0.5 and 0.1 are done by cross      *)
(* multiplication, which agrees with the float64 comparison for every      *)
(* counter value below 2^52.                                               *)
(***************************************************************************)
EXTENDS Integers, Sequences, FiniteSets, TLC

\* ------------------------------------------------------------------ bounds
MaxPredictions == 11   \* total UpdateModelStats calls explored in SpecRegistry
MaxTime == 3           \* last clock value explored
MaxCalls == 3          \* PredictImage calls explored per behaviour
MaxAge == 2            \* largest maxAge handed to CleanupResults
NumRandIDs == 2        \* distinct values rand.Read is allowed to produce
MaxSleep == 2          \* longest time one PredictImage call is seen to take
MaxFailures == 2       \* failed calls per model explored in SpecRecovery
MaxReloads == 2        \* ReloadModel calls explored in SpecConcRegistry
MaxScores == 6         \* longest score vector handed to PostprocessPredictions
MaxTopK == 3
MaxOutcomes == 5
MaxImageLen == 999           \* largest topK handed to PostprocessPredictions

\* ------------------------------------------------------- program constants
NumDefaultClasses == 53     \* len(getDefaultClasses())
DefaultOutputDim == 1000    \* createDefaultMetadata OutputShape
DummyOutputDim == 50        \* createDummyModel OutputShape / Classes[:50]
SimClassLimit == 10         \* "if i >= 10 { break }"
TopPredictions == 5         \* "if len(predictions) > 5"
DefaultMaxFileSize == 10485760   \* MAX_FILE_SIZE default
SniffLen == 512             \* "buffer := make([]byte, 512)"
DefaultTopK == 5            \* "if topK <= 0 { topK = 5 }"
Float32ExpUnderflow == 104  \* float32(math.Exp(x)) is 0 for x <= -104
NumImageNetClasses == 105   \* len(getImageNetClasses())
MockOutputDim == 1000       \* MockTensorFlowService.LoadModel OutputShape
SeedModulus == 1000         \* "len(imageData[0]) % 1000"
TensorLen == 150528         \* 224 * 224 * 3 floats from ProcessImage

Min(a, b) == IF a < b THEN a ELSE b

VARIABLES
    dir,            \* the model directory on disk (fixed during a run)
    models,         \* ModelService.models : key -> LoadedModel
    defaultModel,   \* ModelService.defaultModel
    tfModels,       \* MockTensorFlowService.models (set of loaded IDs)
    useTensorFlow,  \* EnhancedPredictionService.useTensorFlow
    svc,            \* which prediction service the run exercises
    results,        \* PredictionService.results / EnhancedPredictionService.results
    now,            \* time.Now()
    nextPtr,        \* allocation counter: identity of each PredictionResult object
    last,           \* record of the last completed call (history variable)
    pc,             \* per-goroutine position inside its current call
    loc,            \* per-goroutine locals of the current call
    crashed,        \* the Go runtime aborted the process (fatal error)
    files,          \* modification times of the files under ./temp and ./uploads
    audit           \* bookkeeping of registry calls (history variable)

vars == <<dir, models, defaultModel, tfModels, useTensorFlow, svc, results,
          now, nextPtr, last, pc, loc, crashed, files, audit>>

\* ------------------------------------------------------- model directory
NoMeta == [ok |-> FALSE, id |-> "", classes |-> 0, outdim |-> 0]
Meta(id, n, out) == [ok |-> TRUE, id |-> id, classes |-> n, outdim |-> out]
Entry(name, isDir, meta) == [name |-> name, isDir |-> isDir, meta |-> meta]

\* Directory layouts explored: absent; empty; only a plain file; one
\* sub-directory without metadata.json; two sub-directories with metadata
\* (the second without class labels); metadata whose id differs from the
\* directory name.
DirConfigs ==
    { [exists |-> FALSE, entries |-> <<>>],
      [exists |-> TRUE,  entries |-> <<>>],
      [exists |-> TRUE,  entries |-> <<Entry("README", FALSE, NoMeta)>>],
      [exists |-> TRUE,  entries |-> <<Entry("m1", TRUE, NoMeta)>>],
      [exists |-> TRUE,  entries |-> <<Entry("m1", TRUE, Meta("m1", 3, 3)),
                                       Entry("m2", TRUE, Meta("m2", 0, 0))>>],
      [exists |-> TRUE,  entries |-> <<Entry("m1", TRUE, Meta("x", 3, 3))>>] }

ModelKeys == {"dummy", "m1", "m2", "x", "README", "nope"}

EntryNamed(d, name) ==
    LET idx == {i \in 1..Len(d.entries) : d.entries[i].name = name}
    IN  IF idx = {} THEN NoMeta ELSE d.entries[CHOOSE i \in idx : TRUE].meta

\* os.Stat(filepath.Join(path, modelID)) does not report IsNotExist
PathExists(d, name) ==
    d.exists /\ \E i \in 1..Len(d.entries) : d.entries[i].name = name

\* ------------------------------------------------------------ ModelService
HealthyHealth == [Status |-> "healthy", Predictions |-> 0, Errors |-> 0,
                  AvgTime |-> [num |-> 0, den |-> 1]]

NewLoadedModel(info) ==
    [Info |-> info, Health |-> HealthyHealth,
     Predictions |-> 0, Errors |-> 0, TotalTime |-> 0]

createDefaultMetadata(modelID) ==
    [ID |-> modelID, Classes |-> NumDefaultClasses, OutputDim |-> DefaultOutputDim]

\* loadModelMetadata: metadata.json read and parsed, or an error
loadModelMetadata(d, modelID) == EntryNamed(d, modelID)

\* loadModel: the registry after loading modelID, and whether it succeeded
loadModel(ms, d, modelID) ==
    IF ~PathExists(d, modelID)
    THEN [ok |-> FALSE, models |-> ms]
    ELSE LET md == loadModelMetadata(d, modelID)
             info == IF md.ok
                     THEN [ID |-> md.id, Classes |-> md.classes, OutputDim |-> md.outdim]
                     ELSE createDefaultMetadata(modelID)
         IN [ok |-> TRUE,
             models |-> [k \in (DOMAIN ms) \cup {modelID} |->
                           IF k = modelID THEN NewLoadedModel(info) ELSE ms[k]]]

createDummyModel(ms) ==
    [models |-> [k \in (DOMAIN ms) \cup {"dummy"} |->
                   IF k = "dummy"
                   THEN NewLoadedModel([ID |-> "dummy", Classes |-> DummyOutputDim,
                                        OutputDim |-> DummyOutputDim])
                   ELSE ms[k]],
     defaultModel |-> "dummy"]

EmptyRegistry == [k \in {} |-> 0]

\* mutant: every loaded model takes over as the default
NextDefault_LastWins(def, modelID) == modelID

\* "if s.defaultModel == "" { s.defaultModel = modelID }"
NextDefault(def, modelID) == IF def = "" THEN modelID ELSE def

\* The loop of LoadModels over entries[i..], carrying registry, default and count
RECURSIVE LoadLoop(_, _, _, _, _)
LoadLoop(d, i, ms, def, cnt) ==
    IF i > Len(d.entries) THEN [models |-> ms, defaultModel |-> def, loadedCount |-> cnt]
    ELSE LET e == d.entries[i] IN
         IF ~e.isDir THEN LoadLoop(d, i + 1, ms, def, cnt)
         ELSE LET r == loadModel(ms, d, e.name) IN
              IF ~r.ok THEN LoadLoop(d, i + 1, ms, def, cnt)
              ELSE LoadLoop(d, i + 1, r.models, NextDefault(def, e.name), cnt + 1)

\* mutant: the placeholder is only synthesized when the directory is absent
LoadModels_NoFallback(d, ms, def) ==
    IF ~d.exists
    THEN createDummyModel(ms)
    ELSE LET r == LoadLoop(d, 1, ms, def, 0) IN
         [models |-> r.models, defaultModel |-> r.defaultModel]

LoadModels(d, ms, def) ==
    IF ~d.exists
    THEN createDummyModel(ms)
    ELSE LET r == LoadLoop(d, 1, ms, def, 0) IN
         IF r.loadedCount = 0
         THEN createDummyModel(r.models)
         ELSE [models |-> r.models, defaultModel |-> r.defaultModel]

NewModelService(d) == LoadModels(d, EmptyRegistry, "")

\* GetModel: the key looked up, and whether it exists
GetModelKey(def, modelID) == IF modelID = "" THEN def ELSE modelID
GetModel(ms, def, modelID) ==
    LET k == GetModelKey(def, modelID) IN
    [found |-> k \in DOMAIN ms, key |-> k]

\* GetDefaultModel: GetModel(s.defaultModel)
GetDefaultModel(ms, def) == GetModel(ms, def, def)

\* GetModelStatus: the Health of every registry entry
GetModelStatus(ms) == [k \in DOMAIN ms |-> ms[k].Health]

\* Handler.APIHealthCheck: the Services map of the HealthCheck it returns
HealthServices(ms) ==
    LET modelStatus == GetModelStatus(ms) IN
    [image_service |-> "healthy",
     prediction_service |-> "healthy",
     model_service |->
         IF \E k \in DOMAIN modelStatus : modelStatus[k].Status # "healthy"
         THEN "degraded" ELSE "healthy"]

\* mutant: only an "unhealthy" model degrades the aggregate
APIHealthCheck_UnhealthyOnly(ms) ==
    LET modelStatus == GetModelStatus(ms) IN
    IF \E k \in DOMAIN modelStatus : modelStatus[k].Status = "unhealthy"
    THEN "degraded" ELSE "healthy"

\* Handler.APIHealthCheck: the aggregate Status of the HealthCheck it returns
APIHealthCheck(ms) ==
    LET modelStatus == GetModelStatus(ms) IN
    IF \E k \in DOMAIN modelStatus : modelStatus[k].Status # "healthy"
    THEN "degraded" ELSE "healthy"

\* Handler.Index: the SystemHealth handed to the home page template
Index(ms) ==
    LET modelStatus == GetModelStatus(ms) IN
    IF DOMAIN modelStatus = {} THEN "degraded" ELSE "healthy"

\* mutant: the "degraded" threshold is 0 instead of 0.1
HealthStatus_ZeroThreshold(errors, predictions) ==
    IF 2 * errors > predictions THEN "unhealthy"
    ELSE IF errors > 0 THEN "degraded"
    ELSE "healthy"

\* errorRate > 0.5 / errorRate > 0.1 with errorRate = Errors / Predictions
HealthStatus(errors, predictions) ==
    IF 2 * errors > predictions THEN "unhealthy"
    ELSE IF 10 * errors > predictions THEN "degraded"
    ELSE "healthy"

\* mutant: the health tier is taken from the counters as they were before the call
UpdatedModel_StaleRate(m, processingTime, success) ==
    LET p == m.Predictions + 1
        t == m.TotalTime + processingTime
        e == IF success THEN m.Errors ELSE m.Errors + 1
        he == IF success THEN m.Health.Errors ELSE m.Health.Errors + 1
        avg == IF success THEN [num |-> t, den |-> p] ELSE m.Health.AvgTime
    IN [m EXCEPT !.Predictions = p,
                 !.TotalTime = t,
                 !.Errors = e,
                 !.Health = [Status |-> HealthStatus(m.Errors, m.Predictions),
                             Predictions |-> m.Health.Predictions + 1,
                             Errors |-> he,
                             AvgTime |-> avg]]

UpdatedModel(m, processingTime, success) ==
    LET p == m.Predictions + 1
        t == m.TotalTime + processingTime
        e == IF success THEN m.Errors ELSE m.Errors + 1
        he == IF success THEN m.Health.Errors ELSE m.Health.Errors + 1
        avg == IF success THEN [num |-> t, den |-> p] ELSE m.Health.AvgTime
    IN [m EXCEPT !.Predictions = p,
                 !.TotalTime = t,
                 !.Errors = e,
                 !.Health = [Status |-> HealthStatus(e, p),
                             Predictions |-> m.Health.Predictions + 1,
                             Errors |-> he,
                             AvgTime |-> avg]]

\* mutant: the average is recomputed after a failed outcome too
UpdateModelStats_AverageAlways(ms, modelID, processingTime, success) ==
    IF modelID \notin DOMAIN ms THEN ms
    ELSE LET m == UpdatedModel(ms[modelID], processingTime, success) IN
         [ms EXCEPT ![modelID] =
             [m EXCEPT !.Health.AvgTime = [num |-> m.TotalTime, den |-> m.Predictions]]]

UpdateModelStats(ms, modelID, processingTime, success) ==
    IF modelID \notin DOMAIN ms THEN ms
    ELSE [ms EXCEPT ![modelID] = UpdatedModel(ms[modelID], processingTime, success)]

\* mutant: the re-loaded entry keeps the Health record of the entry it replaces
ReloadModel_KeepHealth(ms, d, modelID) ==
    LET removed == [k \in (DOMAIN ms) \ {modelID} |-> ms[k]]
        r == loadModel(removed, d, modelID)
    IN IF r.ok /\ modelID \in DOMAIN ms
       THEN [r EXCEPT !.models[modelID].Health = ms[modelID].Health]
       ELSE r

\* ReloadModel: delete, then loadModel; the entry stays deleted on failure
ReloadModel(ms, d, modelID) ==
    LET removed == [k \in (DOMAIN ms) \ {modelID} |-> ms[k]]
    IN loadModel(removed, d, modelID)

\* ------------------------------------------------------- history variable
NoID == <<"", 0>>
NoResult == [ID |-> NoID, ProcessedAt |-> 0, ModelID |-> "", Image |-> "", ptr |-> 0]
EmptyResults == [k \in {} |-> NoResult]

NoModel == NewLoadedModel([ID |-> "", Classes |-> 0, OutputDim |-> 0])
NoCall == [op |-> "none", modelID |-> "", resultID |-> NoID, success |-> FALSE,
           err |-> "", ret |-> NoResult, key |-> "", status |-> "",
           epoch |-> 0, startEpoch |-> 0, overlap |-> FALSE, entry |-> NoModel,
           arg |-> <<>>, out |-> <<>>,
           maxAge |-> 0, at |-> 0, preResults |-> EmptyResults, preStats |-> <<0, 0>>]

Goroutines == {1, 2}
NoLocals == [modelID |-> "", key |-> "", infoID |-> "", classes |-> 0, image |-> "",
             resultID |-> NoID, startTime |-> 0, ret |-> NoResult,
             model |-> NoModel, success |-> FALSE, epoch |-> 0, overlap |-> FALSE]

\* completed: UpdateModelStats calls completed on the entry now under a key;
\* epoch: how many times the entry under a key was replaced by ReloadModel;
\* updates, reloads: calls started so far
NoAudit == [completed |-> [k \in ModelKeys |-> 0], epoch |-> [k \in ModelKeys |-> 0],
            updates |-> 0, reloads |-> 0]

\* ---------------------------------------------------------------- initial
InitCommon ==
    /\ dir \in DirConfigs
    /\ models = NewModelService(dir).models
    /\ defaultModel = NewModelService(dir).defaultModel
    /\ tfModels = {}
    /\ useTensorFlow = FALSE
    /\ results = EmptyResults
    /\ now = 0
    /\ nextPtr = 1
    /\ last = [NoCall EXCEPT !.op = "NewModelService"]
    /\ pc = [g \in Goroutines |-> "idle"]
    /\ loc = [g \in Goroutines |-> NoLocals]
    /\ crashed = FALSE
    /\ files = {}
    /\ audit = NoAudit

\* ============================================================ SpecRegistry
\* The model registry driven directly through its exported methods.
\* processing times handed to UpdateModelStats (milliseconds)
ProcTimes == {2}

RECURSIVE SumPredictions(_, _)
SumPredictions(ms, keys) ==
    IF keys = {} THEN 0
    ELSE LET k == CHOOSE x \in keys : TRUE
         IN ms[k].Predictions + SumPredictions(ms, keys \ {k})
TotalPredictions(ms) == SumPredictions(ms, DOMAIN ms)

RegistryFrame == UNCHANGED <<dir, tfModels, useTensorFlow, svc, results, now,
                             nextPtr, pc, loc, crashed, files, audit>>

CallUpdateModelStats ==
    \E id \in (DOMAIN models) \cup {"nope"}, t \in ProcTimes, s \in BOOLEAN :
        /\ TotalPredictions(models) < MaxPredictions
        /\ models' = UpdateModelStats(models, id, t, s)
        /\ last' = [NoCall EXCEPT !.op = "UpdateModelStats", !.modelID = id,
                                  !.success = s]
        /\ UNCHANGED defaultModel
        /\ RegistryFrame

CallGetModel ==
    \E id \in (DOMAIN models) \cup {"", "nope"} :
        LET r == GetModel(models, defaultModel, id) IN
        /\ last' = [NoCall EXCEPT !.op = "GetModel", !.modelID = id,
                                  !.key = IF r.found THEN r.key ELSE "",
                                  !.err = IF r.found THEN "" ELSE "model not found"]
        /\ UNCHANGED <<models, defaultModel>>
        /\ RegistryFrame

CallReloadModel ==
    \E id \in (DOMAIN models) \cup {"nope"} :
        LET r == ReloadModel(models, dir, id) IN
        /\ models' = r.models
        /\ last' = [NoCall EXCEPT !.op = "ReloadModel", !.modelID = id,
                                  !.err = IF r.ok THEN "" ELSE "failed to reload model",
                                  !.entry = IF id \in DOMAIN models THEN models[id]
                                            ELSE NoModel]
        /\ UNCHANGED defaultModel
        /\ RegistryFrame

CallGetDefaultModel ==
    LET r == GetDefaultModel(models, defaultModel) IN
    /\ last' = [NoCall EXCEPT !.op = "GetDefaultModel",
                              !.key = IF r.found THEN r.key ELSE "",
                              !.err = IF r.found THEN "" ELSE "model not found"]
    /\ UNCHANGED <<models, defaultModel>>
    /\ RegistryFrame

\* GET /api/health
CallAPIHealthCheck ==
    /\ last' = [NoCall EXCEPT !.op = "APIHealthCheck", !.status = APIHealthCheck(models),
                              !.out = HealthServices(models)]
    /\ UNCHANGED <<models, defaultModel>>
    /\ RegistryFrame

\* GET /
CallIndex ==
    /\ last' = [NoCall EXCEPT !.op = "Index", !.status = Index(models)]
    /\ UNCHANGED <<models, defaultModel>>
    /\ RegistryFrame

InitRegistry == InitCommon /\ svc = "none"
NextRegistry ==
    \/ CallUpdateModelStats
    \/ CallGetModel
    \/ CallGetDefaultModel
    \/ CallReloadModel
    \/ CallAPIHealthCheck
    \/ CallIndex
SpecRegistry == InitRegistry /\ [][NextRegistry]_vars

\* =============================================================== SpecStats
\* Outcomes with different processing times recorded on the registry.
StatTimes == {1, 3}

CallRecordOutcome ==
    \E id \in (DOMAIN models) \cup {"nope"}, t \in StatTimes, s \in BOOLEAN :
        /\ TotalPredictions(models) < MaxOutcomes
        /\ models' = UpdateModelStats(models, id, t, s)
        /\ last' = [NoCall EXCEPT !.op = "UpdateModelStats", !.modelID = id,
                                  !.success = s, !.arg = t]
        /\ UNCHANGED defaultModel
        /\ RegistryFrame

SpecStats == InitRegistry /\ [][CallRecordOutcome]_vars

\* ============================================================ SpecRecovery
\* A model takes a bounded number of failed calls; successful calls keep
\* coming for as long as its counters are below the point where even
\* MaxFailures errors weigh 10% or less.
CallUpdateModelStatsFailed(id) ==
    /\ id \in DOMAIN models
    /\ models[id].Errors < MaxFailures
    /\ \E t \in ProcTimes : models' = UpdateModelStats(models, id, t, FALSE)
    /\ last' = [NoCall EXCEPT !.op = "UpdateModelStats", !.modelID = id,
                              !.success = FALSE]
    /\ UNCHANGED defaultModel
    /\ RegistryFrame

CallUpdateModelStatsOK(id) ==
    /\ id \in DOMAIN models
    /\ models[id].Predictions < 10 * MaxFailures
    /\ \E t \in ProcTimes : models' = UpdateModelStats(models, id, t, TRUE)
    /\ last' = [NoCall EXCEPT !.op = "UpdateModelStats", !.modelID = id,
                              !.success = TRUE]
    /\ UNCHANGED defaultModel
    /\ RegistryFrame

NextRecovery ==
    \/ \E id \in ModelKeys : CallUpdateModelStatsFailed(id)
    \/ \E id \in ModelKeys : CallUpdateModelStatsOK(id)

\* the successful calls on each model keep being made
SpecRecovery ==
    /\ InitRegistry /\ [][NextRecovery]_vars
    /\ \A id \in ModelKeys : WF_vars(CallUpdateModelStatsOK(id))

\* ====================================================== prediction services
Images == {"ok", "garbage"}
\* png.Decode / jpeg.Decode / webp.Decode (and image.Decode) accept the bytes
Decodable(image) == image = "ok"

RandIDs == {<<"hex", n>> : n \in 0..(NumRandIDs - 1)}
TimeIDs == {<<"pred", t>> : t \in 0..MaxTime}
RequestModelIDs == {"", "m1", "m2", "nope"}
TFModelIDs == {"imagenet_demo", "m2"}

\* PredictionService.generateResultID: hex of 8 bytes from crypto/rand.
\* Any value may come out; nothing in the code excludes a value drawn before.
generateResultID == RandIDs

\* EnhancedPredictionService.generateResultID: "pred_" + time.Now().UnixNano()
enhancedGenerateResultID(t) == <<"pred", t>>

\* generateConfidence yields exp(-3x)(0.3 + 0.7 sin(pi x)) with x in [0,1),
\* which is at least 0.3*exp(-3) > 0.01, so every class among the first
\* SimClassLimit passes the "> 0.01" filter.
QualifyingClasses(numClasses) == Min(numClasses, SimClassLimit)

\* performInference / performSimulatedInference: number of predictions
\* returned; 0 stands for the error "no valid predictions generated"
performInference(model) == Min(QualifyingClasses(model.Info.Classes), TopPredictions)

\* performTensorFlowInference succeeds: the requested id is a TF model and
\* the image bytes decode
performTensorFlowInference(tf, image, modelID) == modelID \in tf /\ Decodable(image)

StatsOf(ms, key) ==
    IF key \in DOMAIN ms THEN <<ms[key].Predictions, ms[key].Errors>> ELSE <<0, 0>>

Store(rs, id, r) == [k \in (DOMAIN rs) \cup {id} |-> IF k = id THEN r ELSE rs[k]]

\* mutant: the result is put into the store before inference is known to succeed
PredictImage_StoreFirst(ms, def, rs, t0, ptr, image, modelID, d, rid) ==
    LET g == GetModel(ms, def, modelID) IN
    IF ~g.found
    THEN [err |-> "failed to get model", key |-> "", models |-> ms, results |-> rs,
          now |-> t0, ret |-> NoResult]
    ELSE IF ~Decodable(image)
    THEN [err |-> "failed to decode image", key |-> g.key, models |-> ms, results |-> rs,
          now |-> t0, ret |-> NoResult]
    ELSE LET model == ms[g.key]
             result == [ID |-> rid, ProcessedAt |-> t0 + d,
                        ModelID |-> model.Info.ID, Image |-> image, ptr |-> ptr]
         IN
         IF performInference(model) = 0
         THEN [err |-> "inference failed", key |-> g.key,
               models |-> UpdateModelStats(ms, model.Info.ID, 0, FALSE),
               results |-> Store(rs, rid, result), now |-> t0 + d, ret |-> NoResult]
         ELSE [err |-> "", key |-> g.key,
               models |-> UpdateModelStats(ms, model.Info.ID, d, TRUE),
               results |-> Store(rs, rid, result), now |-> t0 + d, ret |-> result]

\* PredictionService.PredictImage run to completion by one caller.
\* d is the time that passes while performInference sleeps, rid the random ID
PredictImage(ms, def, rs, t0, ptr, image, modelID, d, rid) ==
    LET g == GetModel(ms, def, modelID) IN
    IF ~g.found
    THEN [err |-> "failed to get model", key |-> "", models |-> ms, results |-> rs,
          now |-> t0, ret |-> NoResult]
    ELSE IF ~Decodable(image)
    THEN [err |-> "failed to decode image", key |-> g.key, models |-> ms, results |-> rs,
          now |-> t0, ret |-> NoResult]
    ELSE LET model == ms[g.key] IN
         IF performInference(model) = 0
         THEN [err |-> "inference failed", key |-> g.key,
               models |-> UpdateModelStats(ms, model.Info.ID, 0, FALSE),
               results |-> rs, now |-> t0 + d, ret |-> NoResult]
         ELSE LET result == [ID |-> rid, ProcessedAt |-> t0 + d,
                             ModelID |-> model.Info.ID, Image |-> image, ptr |-> ptr]
              IN [err |-> "", key |-> g.key,
                  models |-> UpdateModelStats(ms, model.Info.ID, d, TRUE),
                  results |-> Store(rs, rid, result), now |-> t0 + d, ret |-> result]

\* EnhancedPredictionService.PredictImage run to completion by one caller.
\* d is the time that passes during the call: at least one unit when the
\* simulated path sleeps, possibly none on the TensorFlow path.
EnhancedPredictImage(ms, def, rs, tf, useTF, t0, ptr, image, modelID, d) ==
    LET resultID == enhancedGenerateResultID(t0)
        g == GetModel(ms, def, modelID)
    IN
    IF ~g.found
    THEN [err |-> "failed to get model", key |-> "", models |-> ms, results |-> rs,
          now |-> t0, ret |-> NoResult, slept |-> FALSE]
    ELSE LET model == ms[g.key]
             tfOK == useTF /\ performTensorFlowInference(tf, image, modelID)
         IN
         IF ~tfOK /\ performInference(model) = 0
         THEN [err |-> "inference failed", key |-> g.key, models |-> ms, results |-> rs,
               now |-> t0 + d, ret |-> NoResult, slept |-> TRUE]
         ELSE LET result == [ID |-> resultID, ProcessedAt |-> t0 + d,
                             ModelID |-> model.Info.ID, Image |-> image, ptr |-> ptr]
              IN [err |-> "", key |-> g.key,
                  models |-> UpdateModelStats(ms, model.Info.ID, d, TRUE),
                  results |-> Store(rs, resultID, result), now |-> t0 + d,
                  ret |-> result, slept |-> ~tfOK]

\* mutant: the "exists" flag of the map lookup is ignored
GetResult_NoExistsCheck(rs, resultID) ==
    [err |-> "", ret |-> IF resultID \in DOMAIN rs THEN rs[resultID] ELSE NoResult]

\* GetResult: the error and the stored result
GetResult(rs, resultID) ==
    IF resultID \in DOMAIN rs
    THEN [err |-> "", ret |-> rs[resultID]]
    ELSE [err |-> "result not found", ret |-> NoResult]

\* mutant: an entry exactly maxAge old is swept too (Before replaced by !After)
Expired_Inclusive(r, t, maxAge) == r.ProcessedAt <= t - maxAge

\* result.ProcessedAt.Before(cutoff) with cutoff := now - maxAge
Expired(r, t, maxAge) == r.ProcessedAt < t - maxAge

\* mutant: the sweep stops after the first deletion
CleanupResults_FirstOnly(rs, t, maxAge) ==
    LET old == {i \in DOMAIN rs : Expired(rs[i], t, maxAge)}
        gone == IF old = {} THEN {} ELSE {CHOOSE i \in old : TRUE}
    IN [k \in (DOMAIN rs) \ gone |-> rs[k]]

\* CleanupResults: delete every entry whose ProcessedAt is before the cutoff
CleanupResults(rs, t, maxAge) ==
    [k \in {i \in DOMAIN rs : ~Expired(rs[i], t, maxAge)} |-> rs[k]]

\* ==================================================================== Spec
\* One caller at a time: every exported call runs to completion.
SeqFrame == UNCHANGED <<dir, svc, pc, loc, crashed, files, audit>>

CallBudget == nextPtr <= MaxCalls /\ TotalPredictions(models) < MaxCalls

CallPredictImage ==
    /\ svc = "basic"
    /\ CallBudget
    /\ \E image \in Images, modelID \in RequestModelIDs, d \in 1..MaxSleep,
          rid \in generateResultID :
        LET r == PredictImage(models, defaultModel, results, now, nextPtr,
                              image, modelID, d, rid) IN
        /\ r.now <= MaxTime
        /\ models' = r.models
        /\ results' = r.results
        /\ now' = r.now
        /\ nextPtr' = IF r.err = "" THEN nextPtr + 1 ELSE nextPtr
        /\ last' = [NoCall EXCEPT !.op = "PredictImage", !.modelID = modelID,
                                  !.err = r.err, !.ret = r.ret, !.key = r.key,
                                  !.resultID = r.ret.ID,
                                  !.preResults = results,
                                  !.preStats = StatsOf(models, r.key)]
    /\ UNCHANGED <<defaultModel, tfModels, useTensorFlow>>
    /\ SeqFrame

CallEnhancedPredictImage ==
    /\ svc = "enhanced"
    /\ CallBudget
    /\ \E image \in Images, modelID \in RequestModelIDs, d \in 0..MaxSleep :
        LET r == EnhancedPredictImage(models, defaultModel, results, tfModels,
                                      useTensorFlow, now, nextPtr, image, modelID, d) IN
        /\ r.slept => d >= 1
        /\ r.now <= MaxTime
        /\ models' = r.models
        /\ results' = r.results
        /\ now' = r.now
        /\ nextPtr' = IF r.err = "" THEN nextPtr + 1 ELSE nextPtr
        /\ last' = [NoCall EXCEPT !.op = "PredictImage", !.modelID = modelID,
                                  !.err = r.err, !.ret = r.ret, !.key = r.key,
                                  !.resultID = r.ret.ID,
                                  !.preResults = results,
                                  !.preStats = StatsOf(models, r.key)]
    /\ UNCHANGED <<defaultModel, tfModels, useTensorFlow>>
    /\ SeqFrame

CallGetResult ==
    /\ \E id \in RandIDs \cup TimeIDs :
        LET r == GetResult(results, id) IN
        last' = [NoCall EXCEPT !.op = "GetResult", !.resultID = id, !.err = r.err,
                               !.ret = r.ret, !.preResults = results]
    /\ UNCHANGED <<models, defaultModel, tfModels, useTensorFlow, results, now, nextPtr>>
    /\ SeqFrame

CallCleanupResults ==
    /\ svc = "basic"
    /\ \E maxAge \in 0..MaxAge :
        /\ results' = CleanupResults(results, now, maxAge)
        /\ last' = [NoCall EXCEPT !.op = "CleanupResults", !.maxAge = maxAge,
                                  !.at = now, !.preResults = results]
    /\ UNCHANGED <<models, defaultModel, tfModels, useTensorFlow, now, nextPtr>>
    /\ SeqFrame

\* EnhancedPredictionService.LoadTensorFlowModel with an existing path
CallLoadTensorFlowModel ==
    /\ svc = "enhanced"
    /\ \E id \in TFModelIDs :
        /\ tfModels' = tfModels \cup {id}
        /\ useTensorFlow' = (tfModels' # {})
        /\ last' = [NoCall EXCEPT !.op = "LoadTensorFlowModel", !.modelID = id]
    /\ UNCHANGED <<models, defaultModel, results, now, nextPtr>>
    /\ SeqFrame

\* MockTensorFlowService.LoadModel called on the service itself (as main does)
CallTFLoadModel ==
    /\ svc = "enhanced"
    /\ \E id \in TFModelIDs :
        /\ tfModels' = tfModels \cup {id}
        /\ last' = [NoCall EXCEPT !.op = "TFLoadModel", !.modelID = id]
    /\ UNCHANGED <<models, defaultModel, useTensorFlow, results, now, nextPtr>>
    /\ SeqFrame

\* time passes between calls
Tick ==
    /\ now < MaxTime
    /\ now' = now + 1
    /\ UNCHANGED <<models, defaultModel, tfModels, useTensorFlow, results, nextPtr, last>>
    /\ SeqFrame

Init == InitCommon /\ svc \in {"basic", "enhanced"}
Next == \/ CallPredictImage
        \/ CallEnhancedPredictImage
        \/ CallGetResult
        \/ CallCleanupResults
        \/ CallLoadTensorFlowModel
        \/ CallTFLoadModel
        \/ Tick
Spec == Init /\ [][Next]_vars

\* ================================================= SpecConcBasic / Enhanced
\* Request goroutines run PredictImage, GetResult and CleanupResults step by
\* step.  ModelService methods hold modelsMutex and are single steps.  The
\* results map has no lock: a map write, a lookup and the sweep's range loop
\* each span an interval during which other goroutines may run.  When two
\* accesses overlap and one of them writes, the Go runtime may abort the
\* process ("fatal error: concurrent map writes") or let both go through.
ConcDirConfigs ==
    { [exists |-> FALSE, entries |-> <<>>],
      [exists |-> TRUE,  entries |-> <<Entry("m1", TRUE, Meta("m1", 3, 3)),
                                       Entry("m2", TRUE, Meta("m2", 0, 0))>>] }
ConcModelIDs == {"", "m2"}

Writing(g) == pc[g] \in {"storing", "sweeping"}
Accessing(g) == pc[g] \in {"storing", "sweeping", "looking"}
MapRace == \E g, h \in Goroutines : g # h /\ Writing(g) /\ Accessing(h)

ConcFrame == UNCHANGED <<dir, defaultModel, tfModels, useTensorFlow, svc, last,
                         crashed, files, audit>>

Return(g) == /\ pc' = [pc EXCEPT ![g] = "idle"]
             /\ loc' = [loc EXCEPT ![g] = NoLocals]

\* PredictionService.PredictImage, lines 36-42: startTime, GetModel
BeginPredictImage(g) ==
    /\ svc = "basic" /\ ~crashed /\ pc[g] = "idle" /\ CallBudget
    /\ \E image \in Images, modelID \in ConcModelIDs :
        LET r == GetModel(models, defaultModel, modelID) IN
        IF ~r.found
        THEN UNCHANGED <<pc, loc>>
        ELSE /\ pc' = [pc EXCEPT ![g] = "decode"]
             /\ loc' = [loc EXCEPT ![g] = [NoLocals EXCEPT !.modelID = modelID,
                            !.key = r.key, !.infoID = models[r.key].Info.ID,
                            !.classes = models[r.key].Info.Classes,
                            !.image = image, !.startTime = now]]
    /\ UNCHANGED <<models, results, now, nextPtr>>
    /\ ConcFrame

\* lines 44-54: decodeImage and preprocessForModel
Decode(g) ==
    /\ ~crashed /\ pc[g] = "decode"
    /\ IF Decodable(loc[g].image)
       THEN pc' = [pc EXCEPT ![g] = "infer"] /\ UNCHANGED loc
       ELSE Return(g)
    /\ UNCHANGED <<models, results, now, nextPtr>>
    /\ ConcFrame

\* lines 56-77: performInference has slept, UpdateModelStats, generateResultID,
\* the result is built with ProcessedAt = time.Now()
Infer(g) ==
    /\ ~crashed /\ pc[g] = "infer"
    /\ now > loc[g].startTime
    /\ IF Min(QualifyingClasses(loc[g].classes), TopPredictions) = 0
       THEN /\ models' = UpdateModelStats(models, loc[g].infoID, 0, FALSE)
            /\ Return(g)
            /\ UNCHANGED nextPtr
       ELSE /\ models' = UpdateModelStats(models, loc[g].infoID,
                                          now - loc[g].startTime, TRUE)
            /\ \E rid \in generateResultID :
                 loc' = [loc EXCEPT ![g].resultID = rid,
                            ![g].ret = [ID |-> rid, ProcessedAt |-> now,
                                        ModelID |-> loc[g].infoID,
                                        Image |-> loc[g].image, ptr |-> nextPtr]]
            /\ nextPtr' = nextPtr + 1
            /\ pc' = [pc EXCEPT ![g] = "store"]
    /\ UNCHANGED <<results, now>>
    /\ ConcFrame

\* EnhancedPredictionService.PredictImage, lines 52-59: startTime,
\* generateResultID, GetModel
BeginEnhancedPredictImage(g) ==
    /\ svc = "enhanced" /\ ~crashed /\ pc[g] = "idle" /\ CallBudget
    /\ \E image \in Images, modelID \in ConcModelIDs :
        LET r == GetModel(models, defaultModel, modelID) IN
        IF ~r.found
        THEN UNCHANGED <<pc, loc>>
        ELSE /\ pc' = [pc EXCEPT ![g] = "einfer"]
             /\ loc' = [loc EXCEPT ![g] = [NoLocals EXCEPT !.modelID = modelID,
                            !.key = r.key, !.infoID = models[r.key].Info.ID,
                            !.classes = models[r.key].Info.Classes,
                            !.image = image, !.startTime = now,
                            !.resultID = enhancedGenerateResultID(now)]]
    /\ UNCHANGED <<models, results, now, nextPtr>>
    /\ ConcFrame

\* lines 61-92: TensorFlow inference or the (sleeping) simulation, the result
\* is built with ProcessedAt = time.Now(), UpdateModelStats
EnhancedInfer(g) ==
    /\ ~crashed /\ pc[g] = "einfer"
    /\ LET tfOK == useTensorFlow
                   /\ performTensorFlowInference(tfModels, loc[g].image, loc[g].modelID)
       IN
       /\ ~tfOK => now > loc[g].startTime
       /\ IF ~tfOK /\ Min(QualifyingClasses(loc[g].classes), TopPredictions) = 0
          THEN /\ Return(g)
               /\ UNCHANGED <<models, nextPtr>>
          ELSE /\ models' = UpdateModelStats(models, loc[g].infoID,
                                             now - loc[g].startTime, TRUE)
               /\ loc' = [loc EXCEPT ![g].ret =
                             [ID |-> loc[g].resultID, ProcessedAt |-> now,
                              ModelID |-> loc[g].infoID,
                              Image |-> loc[g].image, ptr |-> nextPtr]]
               /\ nextPtr' = nextPtr + 1
               /\ pc' = [pc EXCEPT ![g] = "store"]
    /\ UNCHANGED <<results, now>>
    /\ ConcFrame

\* s.results[resultID] = result : the map write begins ...
StoreBegin(g) ==
    /\ ~crashed /\ pc[g] = "store"
    /\ pc' = [pc EXCEPT ![g] = "storing"]
    /\ UNCHANGED <<models, results, now, nextPtr, loc>>
    /\ ConcFrame

\* ... and completes; PredictImage returns
StoreEnd(g) ==
    /\ ~crashed /\ pc[g] = "storing"
    /\ results' = Store(results, loc[g].resultID, loc[g].ret)
    /\ Return(g)
    /\ UNCHANGED <<models, now, nextPtr>>
    /\ ConcFrame

\* GetResult: the map lookup begins ...
LookupBegin(g) ==
    /\ ~crashed /\ pc[g] = "idle"
    /\ results # EmptyResults
    /\ \E id \in DOMAIN results :
        /\ pc' = [pc EXCEPT ![g] = "looking"]
        /\ loc' = [loc EXCEPT ![g] = [NoLocals EXCEPT !.resultID = id]]
    /\ UNCHANGED <<models, results, now, nextPtr>>
    /\ ConcFrame

\* ... and completes; GetResult returns
LookupEnd(g) ==
    /\ ~crashed /\ pc[g] = "looking"
    /\ Return(g)
    /\ UNCHANGED <<models, results, now, nextPtr>>
    /\ ConcFrame

\* CleanupResults: cutoff is computed and the range loop begins ...
SweepBegin(g) ==
    /\ svc = "basic" /\ ~crashed /\ pc[g] = "idle"
    /\ results # EmptyResults
    /\ \E maxAge \in 0..MaxAge :
        /\ pc' = [pc EXCEPT ![g] = "sweeping"]
        /\ loc' = [loc EXCEPT ![g] = [NoLocals EXCEPT !.startTime = now - maxAge]]
    /\ UNCHANGED <<models, results, now, nextPtr>>
    /\ ConcFrame

\* ... and completes: the entries before the cutoff are deleted
SweepEnd(g) ==
    /\ ~crashed /\ pc[g] = "sweeping"
    /\ results' = CleanupResults(results, loc[g].startTime, 0)
    /\ Return(g)
    /\ UNCHANGED <<models, now, nextPtr>>
    /\ ConcFrame

\* the runtime detects overlapping map accesses and aborts the process
RaceFatal ==
    /\ ~crashed /\ MapRace
    /\ crashed' = TRUE
    /\ UNCHANGED <<dir, models, defaultModel, tfModels, useTensorFlow, svc, results,
                   now, nextPtr, last, pc, loc, files, audit>>

ConcTick ==
    /\ ~crashed /\ now < MaxTime
    /\ now' = now + 1
    /\ UNCHANGED <<models, results, nextPtr, pc, loc>>
    /\ ConcFrame

InitConc ==
    /\ dir \in ConcDirConfigs
    /\ models = NewModelService(dir).models
    /\ defaultModel = NewModelService(dir).defaultModel
    /\ results = EmptyResults
    /\ now = 0
    /\ nextPtr = 1
    /\ last = NoCall
    /\ pc = [g \in Goroutines |-> "idle"]
    /\ loc = [g \in Goroutines |-> NoLocals]
    /\ crashed = FALSE
    /\ files = {}
    /\ audit = NoAudit

InitConcBasic ==
    InitConc /\ svc = "basic" /\ tfModels = {} /\ useTensorFlow = FALSE
NextConcBasic ==
    \/ \E g \in Goroutines : BeginPredictImage(g)
    \/ \E g \in Goroutines : Decode(g)
    \/ \E g \in Goroutines : Infer(g)
    \/ \E g \in Goroutines : StoreBegin(g)
    \/ \E g \in Goroutines : StoreEnd(g)
    \/ \E g \in Goroutines : LookupBegin(g)
    \/ \E g \in Goroutines : LookupEnd(g)
    \/ \E g \in Goroutines : SweepBegin(g)
    \/ \E g \in Goroutines : SweepEnd(g)
    \/ RaceFatal
    \/ ConcTick
SpecConcBasic == InitConcBasic /\ [][NextConcBasic]_vars

\* the enhanced service as main wires it (demo model loaded into the mock
\* service after the availability check), or with LoadTensorFlowModel("m2")
InitConcEnhanced ==
    /\ InitConc /\ svc = "enhanced"
    /\ \/ tfModels = {"imagenet_demo"} /\ useTensorFlow = FALSE
       \/ tfModels = {"imagenet_demo", "m2"} /\ useTensorFlow = TRUE
NextConcEnhanced ==
    \/ \E g \in Goroutines : BeginEnhancedPredictImage(g)
    \/ \E g \in Goroutines : EnhancedInfer(g)
    \/ \E g \in Goroutines : StoreBegin(g)
    \/ \E g \in Goroutines : StoreEnd(g)
    \/ \E g \in Goroutines : LookupBegin(g)
    \/ \E g \in Goroutines : LookupEnd(g)
    \/ RaceFatal
    \/ ConcTick
SpecConcEnhanced == InitConcEnhanced /\ [][NextConcEnhanced]_vars

\* ============================================================ SpecValidate
\* ImageService.ValidateImage applied to uploads: a declared size, a declared
\* Content-Type, the file's bytes, and whether reading the file works.
HasPrefix(data, prefix) ==
    Len(data) >= Len(prefix) /\ SubSeq(data, 1, Len(prefix)) = prefix

RIFF == <<82, 73, 70, 70>>
WEBP == <<87, 69, 66, 80>>

detectMimeType(data) ==
    IF Len(data) < 4 THEN "application/octet-stream"
    ELSE IF HasPrefix(data, <<255, 216, 255>>) THEN "image/jpeg"
    ELSE IF HasPrefix(data, <<137, 80, 78, 71>>) THEN "image/png"
    ELSE IF Len(data) >= 12 /\ HasPrefix(data, RIFF) /\ SubSeq(data, 9, 12) = WEBP
         THEN "image/webp"
    ELSE "application/octet-stream"

isAllowedType(allowedTypes, contentType) ==
    \E i \in 1..Len(allowedTypes) : allowedTypes[i] = contentType

\* mutant: the declared Content-Type is trusted, the content is not sniffed
ValidateImage_TrustDeclared(cfg, size, contentType, data, io) ==
    IF size > cfg.MaxFileSize THEN "file size exceeds maximum allowed size"
    ELSE IF ~isAllowedType(cfg.AllowedTypes, contentType) THEN "unsupported file type"
    ELSE IF io = "seek" THEN "failed to seek file"
    ELSE IF io = "read" THEN "failed to read file"
    ELSE IF io = "reseek" THEN "failed to seek file"
    ELSE ""

\* ValidateImage: the error returned ("" for nil)
ValidateImage(cfg, size, contentType, data, io) ==
    IF size > cfg.MaxFileSize THEN "file size exceeds maximum allowed size"
    ELSE IF ~isAllowedType(cfg.AllowedTypes, contentType) THEN "unsupported file type"
    ELSE IF io = "seek" THEN "failed to seek file"
    ELSE IF io = "read" THEN "failed to read file"
    ELSE IF io = "reseek" THEN "failed to seek file"
    ELSE LET buffer == SubSeq(data, 1, Min(Len(data), SniffLen))
             detectedType == detectMimeType(buffer)
         IN IF ~isAllowedType(cfg.AllowedTypes, detectedType)
            THEN "detected file type is not allowed"
            ELSE ""

\* upload configurations: the defaults, and ALLOWED_TYPES set by the operator
UploadConfigs ==
    { [MaxFileSize |-> DefaultMaxFileSize,
       AllowedTypes |-> <<"image/jpeg", "image/png", "image/webp">>],
      [MaxFileSize |-> DefaultMaxFileSize, AllowedTypes |-> <<"image/png">>],
      [MaxFileSize |-> DefaultMaxFileSize,
       AllowedTypes |-> <<"image/jpeg", "image/gif">>],
      [MaxFileSize |-> DefaultMaxFileSize,
       AllowedTypes |-> <<"image/png", "application/octet-stream">>] }

ContentTypes == {"image/jpeg", "image/png", "image/webp", "image/gif",
                 "application/octet-stream", ""}

DeclaredSizes == {0, DefaultMaxFileSize - 1, DefaultMaxFileSize, DefaultMaxFileSize + 1}

\* file contents: empty, a truncated JPEG marker, JPEG, PNG, a near-PNG,
\* WebP, a RIFF container cut before the end of "WEBP", a RIFF/WAVE file,
\* a GIF, a RIFF header with nothing after it
FileContents ==
    { <<>>,
      <<255, 216, 255>>,
      <<255, 216, 255, 224>>,
      <<137, 80, 78, 71, 13, 10>>,
      <<137, 80, 78, 70>>,
      RIFF \o <<0, 0, 0, 0>> \o WEBP,
      RIFF \o <<0, 0, 0, 0>> \o <<87, 69, 66>>,
      RIFF \o <<0, 0, 0, 0>> \o <<87, 65, 86, 69>>,
      <<71, 73, 70, 56, 57, 97>>,
      RIFF }

IOOutcomes == {"none", "seek", "read", "reseek"}

Uploads ==
    [cfg : UploadConfigs, size : DeclaredSizes, contentType : ContentTypes,
     data : FileContents, io : IOOutcomes]

\* the services as constructed, and a pending call op(arg) with arg drawn
\* from args
InitPending(op, args) ==
    /\ dir = [exists |-> FALSE, entries |-> <<>>]
    /\ models = NewModelService(dir).models
    /\ defaultModel = NewModelService(dir).defaultModel
    /\ tfModels = {}
    /\ useTensorFlow = FALSE
    /\ svc = "none"
    /\ results = EmptyResults
    /\ now = 0
    /\ nextPtr = 1
    /\ \E a \in args : last = [NoCall EXCEPT !.op = op, !.arg = a]
    /\ pc = [g \in Goroutines |-> "idle"]
    /\ loc = [g \in Goroutines |-> NoLocals]
    /\ crashed = FALSE
    /\ files = {}
    /\ audit = NoAudit

CallValidateImage ==
    /\ last.op = "upload"
    /\ LET a == last.arg IN
       last' = [last EXCEPT !.op = "ValidateImage",
                  !.out = ValidateImage(a.cfg, a.size, a.contentType, a.data, a.io)]
    /\ UNCHANGED <<models, defaultModel>>
    /\ RegistryFrame

InitValidate == InitPending("upload", Uploads)
SpecValidate == InitValidate /\ [][CallValidateImage]_vars

\* ============================================================== SpecDecode
\* ImageService.ProcessImage applied to uploads: validation, reading the
\* file, then decodeImage.  A file is its leading bytes and whether what
\* follows them is a well-formed image body (intact); each library decoder
\* accepts a file that starts with its own signature and is intact.
PNGSignature == <<137, 80, 78, 71, 13, 10, 26, 10>>

pngDecode(file) == HasPrefix(file.bytes, PNGSignature) /\ file.intact

jpegDecode(file) == HasPrefix(file.bytes, <<255, 216>>) /\ file.intact

webpDecode(file) ==
    /\ Len(file.bytes) >= 12
    /\ HasPrefix(file.bytes, RIFF)
    /\ SubSeq(file.bytes, 9, 12) = WEBP
    /\ file.intact

NoImage == [err |-> "", format |-> "", tried |-> <<>>]

\* mutant: the JPEG decoder is tried before the PNG decoder
decodeImage_JPEGFirst(file, readFails) ==
    IF readFails THEN [NoImage EXCEPT !.err = "read"]
    ELSE IF jpegDecode(file)
         THEN [NoImage EXCEPT !.format = "jpeg", !.tried = <<"jpeg">>]
    ELSE IF pngDecode(file)
         THEN [NoImage EXCEPT !.format = "png", !.tried = <<"jpeg", "png">>]
    ELSE IF webpDecode(file)
         THEN [NoImage EXCEPT !.format = "webp", !.tried = <<"jpeg", "png", "webp">>]
    ELSE [NoImage EXCEPT !.err = "unsupported image format",
                         !.tried = <<"jpeg", "png", "webp">>]

\* decodeImage: the error ("" for nil), the format name, and the decoders
\* called, in call order
decodeImage(file, readFails) ==
    IF readFails THEN [NoImage EXCEPT !.err = "read"]
    ELSE IF pngDecode(file)
         THEN [NoImage EXCEPT !.format = "png", !.tried = <<"png">>]
    ELSE IF jpegDecode(file)
         THEN [NoImage EXCEPT !.format = "jpeg", !.tried = <<"png", "jpeg">>]
    ELSE IF webpDecode(file)
         THEN [NoImage EXCEPT !.format = "webp", !.tried = <<"png", "jpeg", "webp">>]
    ELSE [NoImage EXCEPT !.err = "unsupported image format",
                         !.tried = <<"png", "jpeg", "webp">>]

\* ProcessImage: the error ("" for nil), whether decodeImage was called, and
\* what it returned.  decodeImage reads from an in-memory reader, which
\* never fails.
ProcessImage(cfg, size, contentType, file, io) ==
    LET verr == ValidateImage(cfg, size, contentType, file.bytes, io) IN
    IF verr # "" THEN [err |-> "validation failed", decoded |-> FALSE, image |-> NoImage]
    ELSE IF io = "readall"
         THEN [err |-> "failed to read file", decoded |-> FALSE, image |-> NoImage]
    ELSE LET image == decodeImage(file, FALSE) IN
         [err |-> IF image.err # "" THEN "failed to decode image" ELSE "",
          decoded |-> TRUE, image |-> image]

\* files: the contents above, and a file with the whole PNG signature
ImageFiles == [bytes : FileContents \cup {PNGSignature}, intact : BOOLEAN]

ProcessInputs ==
    [cfg : UploadConfigs, size : DeclaredSizes, contentType : ContentTypes,
     file : ImageFiles, io : IOOutcomes \cup {"readall"}]

CallProcessImage ==
    /\ last.op = "process"
    /\ LET a == last.arg IN
       last' = [last EXCEPT !.op = "ProcessImage",
                  !.out = ProcessImage(a.cfg, a.size, a.contentType, a.file, a.io)]
    /\ UNCHANGED <<models, defaultModel>>
    /\ RegistryFrame

InitDecode == InitPending("process", ProcessInputs)
SpecDecode == InitDecode /\ [][CallProcessImage]_vars

\* =========================================================== SpecInference
\* The simulated inference of both prediction services (the two bodies are
\* the same) applied to image lengths and class lists.  A confidence is kept
\* in units of 10^-9, rounded down.
\* exp(-3x)(0.3 + 0.7 sin(pi x)), made non-negative and capped at 1, for
\* x = 0/1000, 1/1000, ..., 999/1000
ConfidenceTable ==
    <<300000000, 301293872, 302577279, 303850251, 305112817, 306365007, 307606851, 308838379,
       310059620, 311270604, 312471361, 313661922, 314842316, 316012573, 317172724, 318322798,
       319462826, 320592837, 321712863, 322822934, 323923079, 325013329, 326093714, 327164265,
       328225012, 329275986, 330317217, 331348735, 332370572, 333382757, 334385321, 335378295,
       336361709, 337335594, 338299981, 339254900, 340200382, 341136458, 342063158, 342980514,
       343888555, 344787313, 345676818, 346557102, 347428194, 348290127, 349142930, 349986635,
       350821272, 351646872, 352463467, 353271086, 354069762, 354859524, 355640404, 356412432,
       357175640, 357930058, 358675718, 359412649, 360140884, 360860453, 361571387, 362273717,
       362967473, 363652687, 364329390, 364997612, 365657385, 366308739, 366951706, 367586315,
       368212599, 368830587, 369440311, 370041802, 370635090, 371220206, 371797182, 372366047,
       372926834, 373479572, 374024292, 374561025, 375089803, 375610655, 376123612, 376628706,
       377125966, 377615424, 378097110, 378571055, 379037290, 379495845, 379946750, 380390037,
       380825736, 381253877, 381674491, 382087608, 382493260, 382891476, 383282286, 383665722,
       384041814, 384410591, 384772085, 385126326, 385473344, 385813168, 386145831, 386471361,
       386789789, 387101144, 387405458, 387702761, 387993081, 388276450, 388552898, 388822453,
       389085147, 389341009, 389590070, 389832358, 390067904, 390296737, 390518888, 390734386,
       390943261, 391145542, 391341259, 391530441, 391713119, 391889321, 392059077, 392222417,
       392379370, 392529965, 392674231, 392812199, 392943896, 393069353, 393188598, 393301661,
       393408571, 393509356, 393604046, 393692669, 393775256, 393851833, 393922431, 393987078,
       394045803, 394098634, 394145601, 394186731, 394222054, 394251597, 394275390, 394293461,
       394305838, 394312549, 394313623, 394309088, 394298973, 394283305, 394262112, 394235423,
       394203265, 394165667, 394122657, 394074262, 394020509, 393961428, 393897045, 393827389,
       393752486, 393672365, 393587053, 393496577, 393400965, 393300244, 393194442, 393083585,
       392967701, 392846817, 392720961, 392590158, 392454437, 392313824, 392168345, 392018029,
       391862901, 391702988, 391538318, 391368916, 391194809, 391016023, 390832586, 390644523,
       390451861, 390254625, 390052843, 389846541, 389635743, 389420478, 389200770, 388976645,
       388748130, 388515249, 388278030, 388036497, 387790676, 387540594, 387286274, 387027743,
       386765027, 386498149, 386227137, 385952015, 385672808, 385389541, 385102239, 384810928,
       384515632, 384216376, 383913185, 383606084, 383295097, 382980249, 382661564, 382339068,
       382012784, 381682736, 381348950, 381011449, 380670258, 380325400, 379976900, 379624782,
       379269070, 378909787, 378546958, 378180605, 377810754, 377437427, 377060648, 376680440,
       376296827, 375909833, 375519480, 375125792, 374728792, 374328504, 373924949, 373518152,
       373108135, 372694921, 372278532, 371858992, 371436323, 371010549, 370581690, 370149770,
       369714811, 369276836, 368835867, 368391926, 367945035, 367495216, 367042491, 366586883,
       366128413, 365667103, 365202974, 364736049, 364266349, 363793896, 363318710, 362840814,
       362360229, 361876976, 361391077, 360902552, 360411423, 359917711, 359421436, 358922620,
       358421283, 357917447, 357411131, 356902357, 356391145, 355877515, 355361489, 354843086,
       354322327, 353799232, 353273821, 352746115, 352216132, 351683894, 351149420, 350612731,
       350073845, 349532782, 348989563, 348444207, 347896733, 347347160, 346795509, 346241798,
       345686047, 345128275, 344568501, 344006743, 343443022, 342877356, 342309763, 341740263,
       341168875, 340595616, 340020506, 339443562, 338864805, 338284251, 337701919, 337117828,
       336531995, 335944440, 335355179, 334764231, 334171613, 333577344, 332981442, 332383924,
       331784807, 331184110, 330581850, 329978044, 329372710, 328765865, 328157526, 327547711,
       326936437, 326323720, 325709578, 325094028, 324477087, 323858771, 323239096, 322618081,
       321995741, 321372094, 320747154, 320120940, 319493466, 318864751, 318234809, 317603656,
       316971310, 316337786, 315703100, 315067267, 314430305, 313792227, 313153051, 312512792,
       311871465, 311229086, 310585670, 309941234, 309295791, 308649357, 308001948, 307353579,
       306704264, 306054019, 305402858, 304750797, 304097850, 303444033, 302789359, 302133843,
       301477500, 300820345, 300162392, 299503654, 298844148, 298183885, 297522882, 296861152,
       296198709, 295535567, 294871740, 294207242, 293542087, 292876288, 292209859, 291542814,
       290875166, 290206928, 289538115, 288868740, 288198816, 287528355, 286857372, 286185879,
       285513890, 284841418, 284168475, 283495074, 282821228, 282146950, 281472253, 280797149,
       280121651, 279445772, 278769523, 278092917, 277415967, 276738685, 276061083, 275383173,
       274704967, 274026478, 273347717, 272668696, 271989428, 271309923, 270630194, 269950253,
       269270110, 268589778, 267909269, 267228592, 266547761, 265866786, 265185678, 264504450,
       263823111, 263141673, 262460148, 261778545, 261096877, 260415153, 259733385, 259051584,
       258369760, 257687924, 257006086, 256324257, 255642447, 254960668, 254278929, 253597240,
       252915612, 252234055, 251552580, 250871195, 250189912, 249508740, 248827690, 248146770,
       247465992, 246785364, 246104896, 245424598, 244744480, 244064551, 243384821, 242705299,
       242025994, 241346916, 240668074, 239989478, 239311135, 238633057, 237955251, 237277726,
       236600492, 235923558, 235246932, 234570623, 233894639, 233218991, 232543685, 231868732,
       231194138, 230519914, 229846067, 229172605, 228499537, 227826872, 227154617, 226482780,
       225811370, 225140395, 224469863, 223799782, 223130160, 222461004, 221792322, 221124123,
       220456414, 219789202, 219122496, 218456302, 217790629, 217125484, 216460874, 215796806,
       215133289, 214470329, 213807933, 213146109, 212484863, 211824204, 211164138, 210504671,
       209845812, 209187566, 208529941, 207872943, 207216580, 206560858, 205905783, 205251362,
       204597602, 203944510, 203292091, 202640352, 201989300, 201338942, 200689282, 200040328,
       199392085, 198744561, 198097760, 197451690, 196806355, 196161763, 195517919, 194874828,
       194232498, 193590933, 192950139, 192310122, 191670888, 191032443, 190394791, 189757939,
       189121892, 188486655, 187852234, 187218634, 186585861, 185953919, 185322815, 184692553,
       184063139, 183434577, 182806872, 182180031, 181554057, 180928955, 180304732, 179681390,
       179058936, 178437374, 177816708, 177196944, 176578087, 175960140, 175343108, 174726996,
       174111809, 173497551, 172884226, 172271838, 171660393, 171049894, 170440346, 169831752,
       169224118, 168617446, 168011743, 167407010, 166803253, 166200476, 165598682, 164997875,
       164398060, 163799239, 163201418, 162604599, 162008787, 161413984, 160820196, 160227425,
       159635675, 159044950, 158455253, 157866587, 157278957, 156692365, 156106815, 155522310,
       154938853, 154356448, 153775099, 153194807, 152615577, 152037411, 151460313, 150884286,
       150309332, 149735455, 149162658, 148590944, 148020314, 147450774, 146882324, 146314968,
       145748710, 145183550, 144619493, 144056540, 143494695, 142933960, 142374338, 141815831,
       141258441, 140702172, 140147025, 139593003, 139040109, 138488344, 137937711, 137388212,
       136839850, 136292627, 135746544, 135201605, 134657810, 134115163, 133573666, 133033320,
       132494127, 131956089, 131419209, 130883488, 130348929, 129815532, 129283300, 128752234,
       128222337, 127693610, 127166055, 126639674, 126114467, 125590438, 125067586, 124545915,
       124025425, 123506118, 122987996, 122471060, 121955311, 121440750, 120927380, 120415202,
       119904216, 119394425, 118885828, 118378429, 117872227, 117367225, 116863422, 116360821,
       115859423, 115359228, 114860238, 114362453, 113865875, 113370505, 112876343, 112383391,
       111891649, 111401118, 110911800, 110423695, 109936804, 109451127, 108966665, 108483420,
       108001392, 107520581, 107040988, 106562614, 106085460, 105609526, 105134812, 104661319,
       104189049, 103718000, 103248174, 102779571, 102312192, 101846037, 101381106, 100917400,
       100454919, 99993663, 99533634, 99074830, 98617252, 98160901, 97705777, 97251879,
       96799209, 96347766, 95897550, 95448562, 95000801, 94554268, 94108963, 93664885,
       93222035, 92780413, 92340018, 91900852, 91462912, 91026201, 90590716, 90156459,
       89723429, 89291625, 88861049, 88431699, 88003575, 87576678, 87151006, 86726559,
       86303338, 85881342, 85460570, 85041023, 84622699, 84205599, 83789721, 83375067,
       82961634, 82549423, 82138434, 81728665, 81320116, 80912787, 80506677, 80101785,
       79698112, 79295656, 78894416, 78494393, 78095585, 77697992, 77301614, 76906448,
       76512496, 76119755, 75728225, 75337906, 74948797, 74560897, 74174205, 73788720,
       73404441, 73021368, 72639500, 72258836, 71879374, 71501115, 71124057, 70748199,
       70373540, 70000079, 69627816, 69256749, 68886877, 68518199, 68150715, 67784423,
       67419322, 67055410, 66692688, 66331153, 65970806, 65611643, 65253665, 64896871,
       64541258, 64186826, 63833574, 63481500, 63130604, 62780884, 62432338, 62084966,
       61738766, 61393737, 61049877, 60707186, 60365662, 60025304, 59686110, 59348079,
       59011209, 58675500, 58340950, 58007557, 57675320, 57344238, 57014309, 56685531,
       56357904, 56031426, 55706095, 55381910, 55058869, 54736971, 54416214, 54096597,
       53778119, 53460777, 53144570, 52829497, 52515556, 52202745, 51891063, 51580508,
       51271079, 50962774, 50655591, 50349529, 50044586, 49740760, 49438050, 49136454,
       48835971, 48536598, 48238333, 47941177, 47645125, 47350178, 47056332, 46763587,
       46471940, 46181390, 45891934, 45603572, 45316302, 45030121, 44745028, 44461021,
       44178098, 43896257, 43615497, 43335816, 43057211, 42779681, 42503225, 42227840,
       41953524, 41680275, 41408092, 41136973, 40866916, 40597918, 40329978, 40063095,
       39797265, 39532488, 39268761, 39006082, 38744449, 38483861, 38224315, 37965809,
       37708342, 37451912, 37196515, 36942152, 36688818, 36436513, 36185235, 35934981,
       35685749, 35437538, 35190345, 34944168, 34699005, 34454855, 34211714, 33969582,
       33728456, 33488334, 33249213, 33011092, 32773969, 32537842, 32302708, 32068565,
       31835412, 31603246, 31372064, 31141866, 30912649, 30684411, 30457149, 30230861,
       30005546, 29781201, 29557824, 29335413, 29113966, 28893480, 28673954, 28455385,
       28237771, 28021110, 27805400, 27590638, 27376823, 27163952, 26952023, 26741034,
       26530983, 26321867, 26113684, 25906433, 25700110, 25494714, 25290243, 25086694,
       24884065, 24682354, 24481558, 24281676, 24082705, 23884643, 23687488, 23491237,
       23295888, 23101440, 22907889, 22715234, 22523473, 22332602, 22142620, 21953525,
       21765314, 21577986, 21391537, 21205966, 21021270, 20837447, 20654496, 20472412,
       20291195, 20110843, 19931352, 19752720, 19574946, 19398027, 19221961, 19046745,
       18872378, 18698856, 18526178, 18354342, 18183345, 18013184, 17843859, 17675365,
       17507702, 17340866, 17174856, 17009669, 16845304, 16681756, 16519026, 16357109,
       16196004, 16035709, 15876221, 15717539, 15559658, 15402579, 15246297, 15090812 >>

\* "confidence > 0.01"
ConfidenceThreshold == 10000000

generateConfidence(seed, index) == ConfidenceTable[((seed * 31 + index * 17) % 1000) + 1]

\* sort.Slice on at most SimClassLimit elements is an insertion sort with
\* less(i, j) = Confidence[i] > Confidence[j]
RECURSIVE InsertByConfidence(_, _)
InsertByConfidence(sorted, p) ==
    IF sorted = <<>> THEN <<p>>
    ELSE LET n == Len(sorted) IN
         IF p.Confidence > sorted[n].Confidence
         THEN Append(InsertByConfidence(SubSeq(sorted, 1, n - 1), p), sorted[n])
         ELSE Append(sorted, p)

RECURSIVE SortByConfidence(_, _, _)
SortByConfidence(preds, i, sorted) ==
    IF i > Len(preds) THEN sorted
    ELSE SortByConfidence(preds, i + 1, InsertByConfidence(sorted, preds[i]))

\* mutant: the list is not cut to the top five
performSimulatedInference_NoCut(seed, numClasses) ==
    LET all == [i \in 1..Min(numClasses, SimClassLimit) |->
                   [ClassIndex |-> i - 1, Confidence |-> generateConfidence(seed, i - 1)]]
        kept == SelectSeq(all, LAMBDA p : p.Confidence > ConfidenceThreshold)
        sorted == SortByConfidence(kept, 1, <<>>)
    IN IF Len(sorted) = 0
       THEN [err |-> "no valid predictions generated", predictions |-> <<>>]
       ELSE [err |-> "", predictions |-> sorted]

\* performInference / performSimulatedInference: the error ("" for nil) and
\* the predictions, each a class index and its confidence
performSimulatedInference(seed, numClasses) ==
    LET all == [i \in 1..Min(numClasses, SimClassLimit) |->
                   [ClassIndex |-> i - 1, Confidence |-> generateConfidence(seed, i - 1)]]
        kept == SelectSeq(all, LAMBDA p : p.Confidence > ConfidenceThreshold)
        sorted == SortByConfidence(kept, 1, <<>>)
        top == SubSeq(sorted, 1, Min(Len(sorted), TopPredictions))
    IN IF Len(top) = 0
       THEN [err |-> "no valid predictions generated", predictions |-> <<>>]
       ELSE [err |-> "", predictions |-> top]

\* class-list lengths: an empty list from a metadata file, short lists, the
\* placeholder's and the default metadata's
ClassCounts == {0, 1, 3, 5, 6, 10, DummyOutputDim, NumDefaultClasses}

InferenceInputs == [seed : 0..MaxImageLen, numClasses : ClassCounts]

CallPerformInference ==
    /\ last.op = "image"
    /\ LET a == last.arg IN
       last' = [last EXCEPT !.op = "performInference",
                  !.out = performSimulatedInference(a.seed, a.numClasses)]
    /\ UNCHANGED <<models, defaultModel>>
    /\ RegistryFrame

InitInference == InitPending("image", InferenceInputs)
SpecInference == InitInference /\ [][CallPerformInference]_vars

\* ========================================================= SpecPostprocess
\* ImageProcessor.PostprocessPredictions applied to score vectors.  Scores are
\* integers.  float32(exp(x)) is kept as an order-preserving rank: 0 at and
\* below the float32 underflow point, strictly increasing above it; a
\* probability is the pair (expVal, expSum), and since expSum is common to
\* one vector, probabilities compare as their expVals do.
Logits == {-200, 0, 1}

RECURSIVE SeqMax(_, _, _)
SeqMax(seq, i, m) ==
    IF i > Len(seq) THEN m
    ELSE SeqMax(seq, i + 1, IF seq[i] > m THEN seq[i] ELSE m)

RECURSIVE SeqSum(_, _)
SeqSum(seq, i) == IF i > Len(seq) THEN 0 ELSE seq[i] + SeqSum(seq, i + 1)

\* float32(fastExp(float64(x))) for x <= 0
fastExp(x) == IF x <= -Float32ExpUnderflow THEN 0 ELSE x + Float32ExpUnderflow

\* applySoftmax: panics on logits[0] when the slice is empty
applySoftmax(logits) ==
    IF Len(logits) = 0 THEN [panic |-> TRUE, probabilities |-> <<>>]
    ELSE LET maxVal == SeqMax(logits, 1, logits[1])
             expVals == [i \in 1..Len(logits) |-> fastExp(logits[i] - maxVal)]
             expSum == SeqSum(expVals, 1)
         IN [panic |-> FALSE,
             probabilities |-> [i \in 1..Len(logits) |->
                                  [num |-> expVals[i], den |-> expSum]]]

\* a.Probability > b.Probability (same denominator)
ProbGreater(a, b) == a.num > b.num

Swap(res, i, j) ==
    [k \in 1..Len(res) |-> IF k = i THEN res[j] ELSE IF k = j THEN res[i] ELSE res[k]]

\* "for j := i + 1; j < len(results); j++ { if results[j] > results[i] swap }"
RECURSIVE SortInner(_, _, _)
SortInner(res, i, j) ==
    IF j > Len(res) THEN res
    ELSE SortInner(IF ProbGreater(res[j].Probability, res[i].Probability)
                   THEN Swap(res, i, j) ELSE res, i, j + 1)

\* "for i := 0; i < len(results)-1; i++"
RECURSIVE SortOuter(_, _)
SortOuter(res, i) ==
    IF i >= Len(res) THEN res
    ELSE SortOuter(SortInner(res, i, i + 1), i + 1)

NoPredictions == [err |-> "", panic |-> FALSE, results |-> <<>>]

\* mutant: only a score vector longer than the class-name list is rejected
PostprocessPredictions_OnlyLonger(predictions, classNames, topK) ==
    IF Len(predictions) > Len(classNames)
    THEN [NoPredictions EXCEPT !.err = "predictions length does not match class names length"]
    ELSE LET k == IF topK <= 0 THEN DefaultTopK ELSE topK
             sm == applySoftmax(predictions)
         IN IF sm.panic THEN [NoPredictions EXCEPT !.panic = TRUE]
            ELSE LET preds == [i \in 1..Len(sm.probabilities) |->
                                   [ClassIndex |-> i - 1, ClassName |-> classNames[i],
                                    Probability |-> sm.probabilities[i]]]
                     sorted == SortOuter(preds, 1)
                 IN [NoPredictions EXCEPT
                       !.results = IF Len(sorted) > k THEN SubSeq(sorted, 1, k) ELSE sorted]

\* PostprocessPredictions: the results and the error, or a run-time panic
PostprocessPredictions(predictions, classNames, topK) ==
    IF Len(predictions) # Len(classNames)
    THEN [NoPredictions EXCEPT !.err = "predictions length does not match class names length"]
    ELSE LET k == IF topK <= 0 THEN DefaultTopK ELSE topK
             sm == applySoftmax(predictions)
         IN IF sm.panic THEN [NoPredictions EXCEPT !.panic = TRUE]
            ELSE LET preds == [i \in 1..Len(sm.probabilities) |->
                                   [ClassIndex |-> i - 1, ClassName |-> classNames[i],
                                    Probability |-> sm.probabilities[i]]]
                     sorted == SortOuter(preds, 1)
                 IN [NoPredictions EXCEPT
                       !.results = IF Len(sorted) > k THEN SubSeq(sorted, 1, k) ELSE sorted]

AllClassNames == <<"cat", "dog", "bird", "car", "horse", "fish", "ant", "bee", "cow">>
ClassNamesOf(n) == SubSeq(AllClassNames, 1, Min(n, Len(AllClassNames)))

ScoreVectors == UNION {[1..n -> Logits] : n \in 0..MaxScores}

PostprocessInputs ==
    {[predictions |-> p, classNames |-> ClassNamesOf(n), topK |-> k] :
        p \in ScoreVectors, n \in 0..(MaxScores + 1), k \in (-1)..MaxTopK}

CallPostprocessPredictions ==
    /\ last.op = "scores"
    /\ LET a == last.arg IN
       last' = [last EXCEPT !.op = "PostprocessPredictions",
                  !.out = PostprocessPredictions(a.predictions, a.classNames, a.topK)]
    /\ UNCHANGED <<models, defaultModel>>
    /\ RegistryFrame

InitPostprocess == InitPending("scores", PostprocessInputs)
SpecPostprocess == InitPostprocess /\ [][CallPostprocessPredictions]_vars

\* ============================================================== SpecMockTF
\* MockTensorFlowService.Predict applied to registries of mock models.  An
\* entry is what LoadModel stores; Available is an exported field that the
\* holder of the pointer returned by GetModel can clear.  imageData is kept
\* as the sequence of its rows' lengths.  A score is kept as the argument
\* (i+1)*seed of the sigmoid, in thousandths: the sigmoid is increasing.
MockTFModel(modelID, available) ==
    [Info |-> [ID |-> modelID, Classes |-> NumImageNetClasses,
               OutputDim |-> MockOutputDim],
     Available |-> available]

NoScores == [err |-> "", panic |-> FALSE, predictions |-> <<>>]

\* mutant: the Available flag is not looked at
Predict_IgnoreAvailable(reg, modelID, imageData) ==
    IF modelID \notin DOMAIN reg
    THEN [NoScores EXCEPT !.err = "mock model not found"]
    ELSE IF Len(imageData) = 0
    THEN [NoScores EXCEPT !.panic = TRUE]
    ELSE LET numClasses == reg[modelID].Info.Classes
             seed == imageData[1] % SeedModulus
         IN [NoScores EXCEPT !.predictions = [i \in 1..numClasses |-> i * seed]]

\* Predict: the scores and the error, or a run-time panic (imageData[0] on
\* an empty batch)
Predict(reg, modelID, imageData) ==
    IF modelID \notin DOMAIN reg
    THEN [NoScores EXCEPT !.err = "mock model not found"]
    ELSE IF ~reg[modelID].Available
    THEN [NoScores EXCEPT !.err = "mock model not available"]
    ELSE IF Len(imageData) = 0
    THEN [NoScores EXCEPT !.panic = TRUE]
    ELSE LET numClasses == reg[modelID].Info.Classes
             seed == imageData[1] % SeedModulus
         IN [NoScores EXCEPT !.predictions = [i \in 1..numClasses |-> i * seed]]

\* registries: any set of loaded models, each available or not
MockRegistries ==
    UNION {[ids -> {TRUE, FALSE}] : ids \in SUBSET TFModelIDs}

\* batches: the one-row batch ProcessImage builds, and one-row batches of
\* other widths (SetTargetSize), and a two-row batch
Batches == {<<TensorLen>>, <<0>>, <<1>>, <<SeedModulus>>, <<TensorLen, TensorLen>>}

PredictInputs ==
    {[reg |-> [k \in DOMAIN av |-> MockTFModel(k, av[k])],
      modelID |-> id, imageData |-> b] :
        av \in MockRegistries, id \in TFModelIDs \cup {"", "nope"}, b \in Batches}

CallPredict ==
    /\ last.op = "tensor"
    /\ LET a == last.arg IN
       last' = [last EXCEPT !.op = "Predict",
                  !.out = Predict(a.reg, a.modelID, a.imageData)]
    /\ UNCHANGED <<models, defaultModel>>
    /\ RegistryFrame

InitMockTF == InitPending("tensor", PredictInputs)
SpecMockTF == InitMockTF /\ [][CallPredict]_vars

\* ======================================================== SpecConcRegistry
\* Goroutines call UpdateModelStats, GetModel and ReloadModel on one
\* ModelService.  modelsMutex is a sync.RWMutex: a goroutine between Lock and
\* Unlock excludes every other holder, a goroutine between RLock and RUnlock
\* excludes writers.  Who holds the mutex follows from the goroutines'
\* positions.  Inside a critical section the map lookup and the field updates
\* are separate steps.
RegistryIDs == {"dummy", "m1"}

WriteLocked(g) == pc[g] \in {"stats_locked", "stats_write", "reload_locked",
                              "reload_deleted"}
ReadLocked(g) == pc[g] = "get_locked"

\* mutant: Lock returns at once, whoever holds the mutex
CanLock_NoExclusion(g) == TRUE

\* modelsMutex.Lock() returns
CanLock(g) == \A h \in Goroutines \ {g} : ~WriteLocked(h) /\ ~ReadLocked(h)

\* mutant: RLock returns at once, even while a writer holds the mutex
CanRLock_NoExclusion(g) == TRUE

\* modelsMutex.RLock() returns
CanRLock(g) == \A h \in Goroutines \ {g} : ~WriteLocked(h)

\* goroutine h is inside ReloadModel(k), from the call to the return
Reloading(h, k) ==
    pc[h] \in {"reload_wait", "reload_locked", "reload_deleted"} /\ loc[h].key = k

RegConcFrame == UNCHANGED <<dir, defaultModel, tfModels, useTensorFlow, svc, results,
                            now, nextPtr, crashed, files>>

\* UpdateModelStats, lines 270-271: Lock
StatsLock(g) ==
    /\ pc[g] = "idle" /\ audit.updates < MaxCalls
    /\ CanLock(g)
    /\ \E id \in RegistryIDs, s \in BOOLEAN :
         loc' = [loc EXCEPT ![g] = [NoLocals EXCEPT !.key = id, !.success = s]]
    /\ pc' = [pc EXCEPT ![g] = "stats_locked"]
    /\ audit' = [audit EXCEPT !.updates = @ + 1]
    /\ UNCHANGED <<models, last>>
    /\ RegConcFrame

\* lines 273-276: model, exists := s.models[modelID]; the counters are read
StatsLookup(g) ==
    /\ pc[g] = "stats_locked"
    /\ IF loc[g].key \notin DOMAIN models
       THEN Return(g)
       ELSE /\ pc' = [pc EXCEPT ![g] = "stats_write"]
            /\ loc' = [loc EXCEPT ![g].model = models[loc[g].key],
                                  ![g].epoch = audit.epoch[loc[g].key]]
    /\ UNCHANGED <<models, last, audit>>
    /\ RegConcFrame

\* lines 278-300: the counters and the status are written back; Unlock.
\* The writes go to the object found by the lookup, which is the registry's
\* entry unless it was replaced in between.
StatsWrite(g) ==
    /\ pc[g] = "stats_write"
    /\ LET k == loc[g].key IN
       IF k \in DOMAIN models /\ audit.epoch[k] = loc[g].epoch
       THEN /\ \E t \in ProcTimes :
                 models' = [models EXCEPT ![k] = UpdatedModel(loc[g].model, t,
                                                             loc[g].success)]
            /\ audit' = [audit EXCEPT !.completed[k] = @ + 1]
       ELSE UNCHANGED <<models, audit>>
    /\ Return(g)
    /\ UNCHANGED last
    /\ RegConcFrame

\* GetModel is called
GetCall(g) ==
    /\ pc[g] = "idle"
    /\ \E id \in RegistryIDs \cup {""} :
         LET k == GetModelKey(defaultModel, id) IN
         loc' = [loc EXCEPT ![g] = [NoLocals EXCEPT !.modelID = id, !.key = k,
                    !.epoch = IF k \in ModelKeys THEN audit.epoch[k] ELSE 0,
                    !.overlap = \E h \in Goroutines \ {g} : Reloading(h, k)]]
    /\ pc' = [pc EXCEPT ![g] = "get_wait"]
    /\ UNCHANGED <<models, last, audit>>
    /\ RegConcFrame

\* GetModel, line 217: RLock
GetRLock(g) ==
    /\ pc[g] = "get_wait"
    /\ CanRLock(g)
    /\ pc' = [pc EXCEPT ![g] = "get_locked"]
    /\ UNCHANGED <<models, last, audit, loc>>
    /\ RegConcFrame

\* lines 220-229: the lookup; RUnlock; return
GetLookup(g) ==
    /\ pc[g] = "get_locked"
    /\ LET r == GetModel(models, defaultModel, loc[g].modelID) IN
       last' = [NoCall EXCEPT !.op = "GetModel", !.modelID = loc[g].modelID,
                  !.key = r.key,
                  !.err = IF r.found THEN "" ELSE "model not found",
                  !.epoch = IF r.found THEN audit.epoch[r.key] ELSE 0,
                  !.entry = IF r.found THEN models[r.key] ELSE NoModel,
                  !.startEpoch = loc[g].epoch,
                  !.overlap = loc[g].overlap]
    /\ Return(g)
    /\ UNCHANGED <<models, audit>>
    /\ RegConcFrame

\* ReloadModel is called; GetModel calls in progress on the same key now
\* overlap with it
ReloadCall(g) ==
    /\ pc[g] = "idle" /\ audit.reloads < MaxReloads
    /\ \E id \in RegistryIDs :
         loc' = [h \in Goroutines |->
                   IF h = g THEN [NoLocals EXCEPT !.key = id]
                   ELSE IF pc[h] \in {"get_wait", "get_locked"} /\ loc[h].key = id
                        THEN [loc[h] EXCEPT !.overlap = TRUE]
                        ELSE loc[h]]
    /\ pc' = [pc EXCEPT ![g] = "reload_wait"]
    /\ audit' = [audit EXCEPT !.reloads = @ + 1]
    /\ UNCHANGED <<models, last>>
    /\ RegConcFrame

\* ReloadModel, lines 318-319: Lock
ReloadLock(g) ==
    /\ pc[g] = "reload_wait"
    /\ CanLock(g)
    /\ pc' = [pc EXCEPT ![g] = "reload_locked"]
    /\ UNCHANGED <<models, last, audit, loc>>
    /\ RegConcFrame

\* line 322: delete(s.models, modelID)
ReloadDelete(g) ==
    /\ pc[g] = "reload_locked"
    /\ models' = [k \in (DOMAIN models) \ {loc[g].key} |-> models[k]]
    /\ audit' = [audit EXCEPT !.completed[loc[g].key] = 0]
    /\ pc' = [pc EXCEPT ![g] = "reload_deleted"]
    /\ UNCHANGED <<last, loc>>
    /\ RegConcFrame

\* lines 325-330: loadModel builds the new entry and inserts it, or fails;
\* Unlock; return
ReloadLoad(g) ==
    /\ pc[g] = "reload_deleted"
    /\ LET r == loadModel(models, dir, loc[g].key) IN
       /\ models' = r.models
       /\ audit' = IF r.ok THEN [audit EXCEPT !.epoch[loc[g].key] = @ + 1] ELSE audit
       /\ last' = [NoCall EXCEPT !.op = "ReloadModel", !.modelID = loc[g].key,
                      !.err = IF r.ok THEN "" ELSE "failed to reload model"]
    /\ Return(g)
    /\ RegConcFrame

InitConcRegistry ==
    InitConc /\ svc = "none" /\ tfModels = {} /\ useTensorFlow = FALSE
NextConcRegistry ==
    \/ \E g \in Goroutines : StatsLock(g)
    \/ \E g \in Goroutines : StatsLookup(g)
    \/ \E g \in Goroutines : StatsWrite(g)
    \/ \E g \in Goroutines : GetCall(g)
    \/ \E g \in Goroutines : GetRLock(g)
    \/ \E g \in Goroutines : GetLookup(g)
    \/ \E g \in Goroutines : ReloadCall(g)
    \/ \E g \in Goroutines : ReloadLock(g)
    \/ \E g \in Goroutines : ReloadDelete(g)
    \/ \E g \in Goroutines : ReloadLoad(g)
SpecConcRegistry == InitConcRegistry /\ [][NextConcRegistry]_vars

\* ============================================================== SpecServer
\* The running server as main wires it: ModelService, the mock TensorFlow
\* service, FileManager with its periodic cleanup goroutine, the enhanced
\* prediction service (constructed before the demo model is loaded into the
\* mock service), and the request handlers.  The only background task is
\* FileManager.StartPeriodicCleanup, which walks ./temp and ./uploads.
CleanupAge == 2     \* fileManager.SetCleanupAge(2 * time.Hour)

\* FileManager.cleanupDirectory: remove files with ModTime before now - cleanupAge
cleanupDirectory(fs, t) == {m \in fs : ~(m < t - CleanupAge)}

\* one tick of the ticker in StartPeriodicCleanup: CleanupAll
PeriodicCleanup ==
    /\ files' = cleanupDirectory(files, now)
    /\ UNCHANGED <<dir, models, defaultModel, tfModels, useTensorFlow, svc, results,
                   now, nextPtr, last, pc, loc, crashed, audit>>

InitServer ==
    /\ dir \in DirConfigs
    /\ models = NewModelService(dir).models
    /\ defaultModel = NewModelService(dir).defaultModel
    /\ svc = "enhanced"
    /\ useTensorFlow = FALSE            \* checkTensorFlowAvailability on an empty service
    /\ tfModels = {"imagenet_demo"}     \* loadDemoTensorFlowModel, afterwards
    /\ results = EmptyResults
    /\ now = 0
    /\ nextPtr = 1
    /\ last = [NoCall EXCEPT !.op = "main"]
    /\ pc = [g \in Goroutines |-> "idle"]
    /\ loc = [g \in Goroutines |-> NoLocals]
    /\ crashed = FALSE
    /\ files = {0}                      \* a file left in ./uploads at start-up
    /\ audit = NoAudit

\* Upload / APIPredictImage call PredictImage, GetResults / APIGetResults
\* call GetResult
NextServer ==
    \/ CallEnhancedPredictImage
    \/ CallGetResult
    \/ PeriodicCleanup
    \/ Tick

\* time passes, the ticker keeps firing and clients keep asking for results
SpecServer ==
    /\ InitServer /\ [][NextServer]_vars
    /\ WF_vars(Tick) /\ WF_vars(PeriodicCleanup) /\ WF_vars(CallGetResult)

\* ================================================================== claims

\* C1: after every UpdateModelStats call on a loaded model, its health status
\* is "unhealthy" iff Errors/Predictions > 0.5, "degraded" iff
\* 0.1 < Errors/Predictions <= 0.5 and "healthy" otherwise, for the counters
\* as they are after the call.
C1_HealthMatchesErrorRate ==
    (last.op = "UpdateModelStats" /\ last.modelID \in DOMAIN models) =>
        LET m == models[last.modelID] IN
        /\ (m.Health.Status = "unhealthy") <=> (2 * m.Errors > m.Predictions)
        /\ (m.Health.Status = "degraded") <=>
               (10 * m.Errors > m.Predictions /\ 2 * m.Errors <= m.Predictions)
        /\ (m.Health.Status = "healthy") <=> (10 * m.Errors <= m.Predictions)
        /\ m.Health.Status \in {"healthy", "degraded", "unhealthy"}

\* a model sits exactly on the 10% boundary after a call and is healthy
C1_Witness ==
    /\ last.op = "UpdateModelStats"
    /\ last.modelID \in DOMAIN models
    /\ models[last.modelID].Predictions = 10
    /\ models[last.modelID].Errors = 1
    /\ models[last.modelID].Health.Status = "healthy"

NoSubdirectories(d) == ~d.exists \/ \A i \in 1..Len(d.entries) : ~d.entries[i].isDir

FailedAfterResolve ==
    /\ last.op = "PredictImage"
    /\ last.err \in {"failed to decode image", "failed to preprocess image",
                     "inference failed"}

\* C2: whenever PredictImage returns an error after the model was resolved,
\* the resolved model's prediction counter and error counter have each grown
\* by one (in both services).
C2_FailureCountsAsError ==
    FailedAfterResolve =>
        /\ last.key \in DOMAIN models
        /\ StatsOf(models, last.key) = <<last.preStats[1] + 1, last.preStats[2] + 1>>

\* C3: PredictImage is all-or-nothing for the result store: on an error the
\* results map is what it was before the call; on success the returned
\* result is in the map under the returned ID.
C3_AllOrNothing ==
    (last.op = "PredictImage") =>
        IF last.err # ""
        THEN results = last.preResults /\ last.ret = NoResult
        ELSE /\ last.ret.ID \in DOMAIN results
             /\ results[last.ret.ID] = last.ret
             /\ \A k \in DOMAIN last.preResults :
                    k # last.ret.ID => (k \in DOMAIN results /\ results[k] = last.preResults[k])

\* inference failed on a resolved model while the store already held a result
C3_Witness ==
    /\ last.op = "PredictImage"
    /\ last.err = "inference failed"
    /\ DOMAIN results # {}
    /\ results = last.preResults

\* age of a result at the time the last call ran
AgeOf(r) == last.at - r.ProcessedAt

\* C6: right after PredictImage returned r, GetResult(r.ID) returns r without
\* error; after CleanupResults(maxAge) with maxAge smaller than r's age,
\* GetResult(r.ID) returns the not-found error.
C6_StoreRoundTrip ==
    /\ (last.op = "PredictImage" /\ last.err = "") =>
           GetResult(results, last.ret.ID) = [err |-> "", ret |-> last.ret]
    /\ (last.op = "CleanupResults") =>
           \A id \in DOMAIN last.preResults :
               (last.maxAge < AgeOf(last.preResults[id])) =>
                   GetResult(results, id) = [err |-> "result not found", ret |-> NoResult]

\* a sweep has just removed a result that was older than maxAge
C6_Witness ==
    /\ last.op = "CleanupResults"
    /\ \E id \in DOMAIN last.preResults :
           /\ last.maxAge < AgeOf(last.preResults[id])
           /\ GetResult(results, id).err = "result not found"

\* C7: CleanupResults(maxAge) removes exactly the stored results whose
\* ProcessedAt is strictly before now - maxAge; every other result stays
\* and is unchanged.
C7_SweepRemovesExactlyExpired ==
    (last.op = "CleanupResults") =>
        /\ DOMAIN results =
               {id \in DOMAIN last.preResults :
                    ~(last.preResults[id].ProcessedAt < last.at - last.maxAge)}
        /\ \A id \in DOMAIN results : results[id] = last.preResults[id]

\* one sweep removed a result and kept another; a kept one is exactly maxAge old
C7_Witness ==
    /\ last.op = "CleanupResults"
    /\ DOMAIN results # {}
    /\ DOMAIN results # DOMAIN last.preResults
    /\ \E id \in DOMAIN results : AgeOf(results[id]) = last.maxAge

\* C9: GetResult with an ID that is not in the store returns the not-found
\* error and no result, and leaves the store unchanged.
C9_MissingResultNotFound ==
    (last.op = "GetResult" /\ last.resultID \notin DOMAIN last.preResults) =>
        /\ last.err = "result not found"
        /\ last.ret = NoResult
        /\ results = last.preResults

\* a lookup of an absent ID on a store that holds other results
C9_Witness ==
    /\ last.op = "GetResult"
    /\ last.resultID \notin DOMAIN results
    /\ DOMAIN results # {}
    /\ last.err = "result not found"

\* C4: any two successful PredictImage calls on one service get different
\* result IDs, so a store adds a new entry and never replaces the entry of
\* another prediction: a call about to store holds an ID that is neither in
\* the store nor held by another call about to store.
C4_DistinctResultIDs ==
    \A g \in Goroutines :
        pc[g] \in {"store", "storing"} =>
            /\ loc[g].resultID \notin DOMAIN results
            /\ \A h \in Goroutines \ {g} :
                   pc[h] \in {"store", "storing"} => loc[h].resultID # loc[g].resultID

\* C5: accesses to the results map are mutually exclusive: no goroutine
\* writes or deletes an entry while another one reads or writes the map.
C5_MapAccessExclusive == ~MapRace

\* C8: in the running server every stored result is eventually removed once
\* it is older than the retention window (whatever window is configured).
C8_ResultsEventuallySwept ==
    \A id \in TimeIDs : \A w \in 0..MaxAge :
        (id \in DOMAIN results /\ now - results[id].ProcessedAt > w)
            ~> (id \notin DOMAIN results)

\* C11: when the registry holds only the synthesized placeholder model and
\* the placeholder's own status is "healthy", the aggregate status returned by
\* the health check, and the SystemHealth shown on the home page, is "degraded".
C11_PlaceholderMeansDegraded ==
    ( /\ last.op \in {"APIHealthCheck", "Index"}
      /\ DOMAIN models = {"dummy"}
      /\ models["dummy"].Health.Status = "healthy" )
        => last.status = "degraded"

HasSubdirectory(d) == d.exists /\ \E i \in 1..Len(d.entries) : d.entries[i].isDir
FirstLoaded(d) ==
    LET i == CHOOSE n \in 1..Len(d.entries) :
                 d.entries[n].isDir /\ \A j \in 1..(n - 1) : ~d.entries[j].isDir
    IN d.entries[i].name

\* C12: the first model LoadModels loads is the default and stays the default
\* when further models load; GetModel("") and GetDefaultModel return it, and
\* GetModel with an ID that is not in the registry returns a not-found error.
C12_FirstLoadedIsDefault ==
    /\ HasSubdirectory(dir) => defaultModel = FirstLoaded(dir)
    /\ ( /\ HasSubdirectory(dir)
         /\ \/ last.op = "GetModel" /\ last.modelID = ""
            \/ last.op = "GetDefaultModel" )
           => last.err = "" /\ last.key = FirstLoaded(dir)
    /\ (last.op = "GetModel" /\ last.modelID # "" /\ last.modelID \notin DOMAIN models)
           => last.err = "model not found" /\ last.key = ""

C12_Witness ==
    /\ DOMAIN models = {"m1", "m2"}
    /\ last.op = "GetModel" /\ last.modelID = "" /\ last.key = "m1"

\* C14: the per-model health state has no terminal state: whenever a model is
\* "unhealthy" or "degraded" and no further failure is recorded, a finite run
\* of successful UpdateModelStats calls brings it back to "healthy".
C14_HealthRecovers ==
    \A k \in ModelKeys :
        (k \in DOMAIN models /\ models[k].Health.Status \in {"unhealthy", "degraded"})
            ~> (k \in DOMAIN models /\ models[k].Health.Status = "healthy")

C14_Witness ==
    \E k \in DOMAIN models :
        /\ models[k].Errors = MaxFailures
        /\ models[k].Predictions = 10 * MaxFailures
        /\ models[k].Health.Status = "healthy"
        /\ last.op = "UpdateModelStats" /\ last.modelID = k /\ last.success

\* C13: every UpdateModelStats call on a loaded model adds exactly one to that
\* model's prediction count, on success and on failure alike and also when
\* calls run concurrently: the count of the entry under a key equals the
\* number of calls completed on it (no lost update, no decrease), and both
\* cumulative counters stay equal.
C13_NoLostUpdate ==
    \A k \in DOMAIN models :
        /\ models[k].Predictions = audit.completed[k]
        /\ models[k].Health.Predictions = audit.completed[k]

C13_Witness ==
    \E k \in DOMAIN models :
        /\ models[k].Predictions = 2
        /\ models[k].Errors = 1
        /\ \E g \in Goroutines : pc[g] = "stats_locked" /\ loc[g].key = k
        /\ \E h \in Goroutines : pc[h] = "reload_wait"

\* C15 (as stated): a GetModel(id) call that overlaps a ReloadModel(id) call
\* returns either the entry that was registered before the reload or a
\* not-found error.
C15_OldEntryOrNotFound ==
    (last.op = "GetModel" /\ last.overlap)
        => (last.err = "model not found" \/ last.epoch = last.startEpoch)

\* C15 (amended): ReloadModel holds the write lock from the delete to the
\* re-insert, so a GetModel(id) call that overlaps it never sees the gap: it
\* returns the entry registered before the reload or the completely loaded
\* entry that replaced it, and it returns not-found only when the model's
\* directory does not exist (the reload failed, or the ID was never loaded).
C15_OldOrReloadedEntry ==
    (last.op = "GetModel" /\ last.overlap)
        => IF last.err = ""
           THEN /\ last.epoch \in last.startEpoch..audit.epoch[last.key]
                /\ (last.epoch > last.startEpoch =>
                       /\ PathExists(dir, last.key)
                       /\ last.entry.Info =
                            loadModel(EmptyRegistry, dir, last.key).models[last.key].Info)
           ELSE ~PathExists(dir, last.key)

C15_Witness ==
    /\ last.op = "GetModel" /\ last.overlap /\ last.err = ""
    /\ last.epoch = last.startEpoch + 1

\* C16: ValidateImage accepts an upload whose file can be read iff the
\* declared size does not exceed the configured maximum, the declared
\* Content-Type is in the allow-list and the type sniffed from the leading
\* bytes (JPEG, PNG, WebP, else application/octet-stream) is in the
\* allow-list; a declared type that is allowed does not save an upload whose
\* sniffed type is not.
SniffedType(data) ==
    IF Len(data) >= 4 /\ SubSeq(data, 1, 3) = <<255, 216, 255>> THEN "image/jpeg"
    ELSE IF Len(data) >= 4 /\ SubSeq(data, 1, 4) = <<137, 80, 78, 71>> THEN "image/png"
    ELSE IF Len(data) >= 12 /\ SubSeq(data, 1, 4) = <<82, 73, 70, 70>>
            /\ SubSeq(data, 9, 12) = <<87, 69, 66, 80>> THEN "image/webp"
    ELSE "application/octet-stream"

InList(list, x) == \E i \in DOMAIN list : list[i] = x

C16_ValidateImagePolicy ==
    (last.op = "ValidateImage" /\ last.arg.io = "none") =>
        LET a == last.arg IN
        /\ (last.out = "") <=>
              ( /\ a.size <= a.cfg.MaxFileSize
                /\ InList(a.cfg.AllowedTypes, a.contentType)
                /\ InList(a.cfg.AllowedTypes, SniffedType(a.data)) )
        /\ ( /\ InList(a.cfg.AllowedTypes, a.contentType)
             /\ ~InList(a.cfg.AllowedTypes, SniffedType(a.data)) ) => last.out # ""

C16_Witness ==
    /\ last.op = "ValidateImage" /\ last.arg.io = "none"
    /\ last.arg.size <= last.arg.cfg.MaxFileSize
    /\ last.arg.contentType = "image/png"
    /\ SniffedType(last.arg.data) = "application/octet-stream"
    /\ last.arg.cfg.AllowedTypes = <<"image/jpeg", "image/png", "image/webp">>
    /\ last.out = "detected file type is not allowed"

\* C17: PostprocessPredictions returns an error and no results whenever the
\* number of raw scores differs from the number of class names.
C17_LengthMismatchIsError ==
    ( /\ last.op = "PostprocessPredictions"
      /\ Len(last.arg.predictions) # Len(last.arg.classNames) )
        => /\ last.out.err # ""
           /\ last.out.results = <<>>
           /\ ~last.out.panic

C17_Witness ==
    /\ last.op = "PostprocessPredictions"
    /\ Len(last.arg.predictions) = 2 /\ Len(last.arg.classNames) = 3
    /\ last.out.err # ""

EffectiveTopK(topK) == IF topK > 0 THEN topK ELSE 5

\* C18: for N scores with N class names PostprocessPredictions returns
\* exactly min(K, N) results (K = topK if topK > 0, else 5), in non-increasing
\* order of probability, each with the class name of its own score index, and
\* no class left out has a strictly higher probability than a returned one.
C18_TopKSorted ==
    ( /\ last.op = "PostprocessPredictions"
      /\ Len(last.arg.predictions) = Len(last.arg.classNames) )
        => LET a == last.arg
               N == Len(a.predictions)
               res == last.out.results
               sm == applySoftmax(a.predictions).probabilities
               returned == {res[i].ClassIndex : i \in 1..Len(res)}
           IN /\ ~last.out.panic /\ last.out.err = ""
              /\ Len(res) = Min(EffectiveTopK(a.topK), N)
              /\ \A i \in 1..(Len(res) - 1) :
                     res[i].Probability.num >= res[i + 1].Probability.num
              /\ \A i \in 1..Len(res) :
                     /\ res[i].ClassIndex \in 0..(N - 1)
                     /\ res[i].ClassName = a.classNames[res[i].ClassIndex + 1]
                     /\ res[i].Probability = sm[res[i].ClassIndex + 1]
              /\ \A c \in (0..(N - 1)) \ returned : \A i \in 1..Len(res) :
                     sm[c + 1].num <= res[i].Probability.num

\* C19: the sort in PostprocessPredictions is stable: among returned classes
\* with equal probability, the lower class index comes first.
C19_SortIsStable ==
    (last.op = "PostprocessPredictions" /\ ~last.out.panic) =>
        LET res == last.out.results IN
        \A i, j \in 1..Len(res) :
            (i < j /\ res[i].Probability = res[j].Probability)
                => res[i].ClassIndex < res[j].ClassIndex

\* C20: MockTensorFlowService.Predict returns an error and no scores when the
\* named model is not in its registry or is not marked Available; for a
\* loaded, available model it returns one score per class of that model.
C20_PredictNeedsAvailableModel ==
    (last.op = "Predict") =>
        LET a == last.arg IN
        IF a.modelID \in DOMAIN a.reg /\ a.reg[a.modelID].Available
        THEN /\ last.out.err = "" /\ ~last.out.panic
             /\ Len(last.out.predictions) = a.reg[a.modelID].Info.Classes
        ELSE /\ last.out.err # "" /\ ~last.out.panic
             /\ last.out.predictions = <<>>

C20_Witness ==
    /\ last.op = "Predict"
    /\ last.arg.modelID = "m2"
    /\ DOMAIN last.arg.reg = {"imagenet_demo", "m2"}
    /\ ~last.arg.reg["m2"].Available
    /\ last.arg.reg["imagenet_demo"].Available
    /\ last.out.err = "mock model not available"

\* C21: for every model in the model registry and in the mock TensorFlow
\* registry, the number of class labels equals the model's output dimension
\* (the last element of OutputShape).
C21_ClassesMatchOutputDim ==
    /\ \A k \in DOMAIN models : models[k].Info.Classes = models[k].Info.OutputDim
    /\ \A id \in tfModels :
           MockTFModel(id, TRUE).Info.Classes = MockTFModel(id, TRUE).Info.OutputDim

\* the decoders in the order the claim gives
DecoderOrder == <<"png", "jpeg", "webp">>

Accepts(decoder, file) ==
    CASE decoder = "png" -> pngDecode(file)
      [] decoder = "jpeg" -> jpegDecode(file)
      [] decoder = "webp" -> webpDecode(file)

\* C22: decodeImage calls the PNG, then the JPEG, then the WebP decoder and
\* stops at the first that succeeds, whose format name it returns; it returns
\* the 'unsupported image format' error exactly when all three fail.
C22_FirstDecoderWins ==
    (last.op = "ProcessImage" /\ last.out.decoded) =>
        LET r == last.out.image
            file == last.arg.file
            n == Len(r.tried)
        IN /\ n \in 1..3
           /\ r.tried = SubSeq(DecoderOrder, 1, n)
           /\ \A i \in 1..(n - 1) : ~Accepts(r.tried[i], file)
           /\ (r.err = "") => (Accepts(r.tried[n], file) /\ r.format = r.tried[n])
           /\ (r.err = "unsupported image format")
                  <=> (\A i \in 1..3 : ~Accepts(DecoderOrder[i], file))
           /\ r.err \in {"", "unsupported image format"}

\* a JPEG was decoded after the PNG decoder had refused it
C22_Witness ==
    /\ last.op = "ProcessImage"
    /\ last.out.decoded
    /\ last.out.image.format = "jpeg"
    /\ last.out.image.tried = <<"png", "jpeg">>

\* C23: the detailed health check reports the aggregate status 'degraded',
\* and model_service 'degraded', exactly when at least one model of the
\* registry has a status other than 'healthy'; otherwise both are 'healthy';
\* no other value is reported.
C23_DegradedIffSomeModelNotHealthy ==
    (last.op = "APIHealthCheck") =>
        LET some == \E k \in DOMAIN models : models[k].Health.Status # "healthy" IN
        /\ last.status \in {"healthy", "degraded"}
        /\ last.out.model_service \in {"healthy", "degraded"}
        /\ (last.status = "degraded") <=> some
        /\ (last.out.model_service = "degraded") <=> some

\* the check ran while a model with real counters was 'degraded'
C23_Witness ==
    /\ last.op = "APIHealthCheck"
    /\ last.status = "degraded"
    /\ \E k \in DOMAIN models :
           /\ models[k].Health.Status = "degraded"
           /\ models[k].Predictions > 0

\* C24: a recorded outcome adds its processing time to TotalTime, whether it
\* succeeded or failed; after a successful one the average latency equals
\* TotalTime / Predictions, and a failed one leaves the average unchanged.
C24_AverageLatency ==
    [][\A k \in (DOMAIN models) \cap (DOMAIN models') :
          (models'[k].Predictions = models[k].Predictions + 1) =>
              /\ models'[k].TotalTime = models[k].TotalTime + last'.arg
              /\ IF last'.success
                 THEN models'[k].Health.AvgTime.num * models'[k].Predictions
                          = models'[k].TotalTime * models'[k].Health.AvgTime.den
                 ELSE models'[k].Health.AvgTime = models[k].Health.AvgTime]_vars

\* a success was recorded on a model that had failures before, with a total
\* that the number of outcomes does not divide
C24_Witness ==
    /\ last.op = "UpdateModelStats"
    /\ last.success
    /\ \E k \in DOMAIN models :
           /\ k = last.modelID
           /\ models[k].Errors > 0
           /\ models[k].TotalTime % models[k].Predictions # 0

\* C25: the simulated inference returns between 1 and 5 predictions, ordered
\* by non-increasing confidence, drawn only from the first 10 classes of the
\* model, each with confidence above 0.01; when no class qualifies it fails
\* with an error instead.
C25_SimulatedPredictions ==
    (last.op = "performInference") =>
        LET r == last.out
            n == Len(r.predictions)
            qualifies(i) == /\ i < last.arg.numClasses
                            /\ i < 10
                            /\ generateConfidence(last.arg.seed, i) > ConfidenceThreshold
        IN IF r.err = ""
           THEN /\ n \in 1..5
                /\ \A i \in 1..n :
                       /\ r.predictions[i].ClassIndex \in 0..9
                       /\ qualifies(r.predictions[i].ClassIndex)
                       /\ r.predictions[i].Confidence
                              = generateConfidence(last.arg.seed, r.predictions[i].ClassIndex)
                /\ \A i \in 1..(n - 1) :
                       r.predictions[i].Confidence >= r.predictions[i + 1].Confidence
                /\ \A i, j \in 1..n :
                       i # j => r.predictions[i].ClassIndex # r.predictions[j].ClassIndex
           ELSE /\ n = 0
                /\ \A i \in 0..9 : ~qualifies(i)

\* more than five classes qualified and the five returned are not in class order
C25_Witness ==
    /\ last.op = "performInference"
    /\ last.arg.numClasses > 5
    /\ last.out.err = ""
    /\ Len(last.out.predictions) = 5
    /\ last.out.predictions[1].ClassIndex > last.out.predictions[2].ClassIndex

\* C26: every entry of the model registry is stored under its own Info.ID, so
\* the UpdateModelStats(model.Info.ID, ...) call of PredictImage updates the
\* model that GetModel resolved.
C26_KeyIsInfoID ==
    /\ \A k \in DOMAIN models : models[k].Info.ID = k
    /\ (last.op = "PredictImage" /\ last.err = "") =>
           StatsOf(models, last.key)[1] = last.preStats[1] + 1

\* C27: ReloadModel of a loaded model leaves the registry usable: when the
\* re-load fails the entry that was loaded before is still there and the
\* default model still resolves; when it succeeds the entry is a fresh one,
\* 'healthy' and with zero counters.
C27_ReloadKeepsRegistryUsable ==
    (last.op = "ReloadModel" /\ last.entry # NoModel) =>
        IF last.err # ""
        THEN /\ last.modelID \in DOMAIN models
             /\ models[last.modelID] = last.entry
             /\ GetDefaultModel(models, defaultModel).found
        ELSE /\ last.modelID \in DOMAIN models
             /\ models[last.modelID].Health.Status = "healthy"
             /\ models[last.modelID].Predictions = 0
             /\ models[last.modelID].Errors = 0
             /\ models[last.modelID].TotalTime = 0

\* the counters of every entry agree with each other
CountersConsistent(ms) ==
    \A k \in DOMAIN ms :
        /\ ms[k].Errors <= ms[k].Predictions
        /\ ms[k].Predictions = ms[k].Health.Predictions
        /\ ms[k].Errors = ms[k].Health.Errors

\* C28: in every reachable state each model has Errors <= Predictions, and
\* its own Predictions and Errors equal those of its Health record; an
\* UpdateModelStats call on an ID that is not in the registry changes no
\* model's counters or status.
C28_CountersConsistent ==
    [][/\ CountersConsistent(models)
       /\ CountersConsistent(models')
       /\ (last'.op = "UpdateModelStats" /\ last'.modelID \notin DOMAIN models)
              => models' = models]_vars

\* UpdateModelStats ran on an unknown ID while a model had recorded failures
C28_Witness ==
    /\ last.op = "UpdateModelStats"
    /\ last.modelID \notin DOMAIN models
    /\ \E k \in DOMAIN models : models[k].Errors > 0 /\ models[k].Errors < models[k].Predictions

\* C29: useTensorFlow of the enhanced prediction service is true exactly when
\* the mock TensorFlow service holds at least one loaded model.
C29_FlagTracksTFRegistry ==
    useTensorFlow <=> (tfModels # {})

\* C30: PostprocessPredictions returns either a result list or an error for
\* every input, the empty score vector with the empty class-name list
\* included; it never panics.
C30_PostprocessNeverPanics ==
    (last.op = "PostprocessPredictions") =>
        /\ ~last.out.panic
        /\ (last.out.err # "") => (last.out.results = <<>>)

====
